---- MODULE Spec2Model ----
(***************************************************************************)
(* kube-git-backup: the reconciliation pipeline.                           *)
(*                                                                         *)
(*   collector  (internal/collector/collector.go)  selection and listing   *)
(*   sanitizer  (internal/sanitizer/sanitizer.go)  field stripping, YAML   *)
(*   git        (internal/git/git.go)              working tree, commits   *)
(*   main       (cmd/main.go, stored in src/setup.sh from line 347)        *)
(*                                                                         *)
(* Go strings are TLA+ strings, Go maps are functions with a finite        *)
(* domain, Go slices are sequences.                                        *)
(***************************************************************************)
EXTENDS Integers, Sequences, FiniteSets, TLC

(***************************************************************************)
(* package strings / path/filepath                                         *)
(***************************************************************************)

\* strings.HasPrefix
HasPrefix(s, p) == Len(s) >= Len(p) /\ SubSeq(s, 1, Len(p)) = p

\* strings.HasSuffix
HasSuffix(s, p) == Len(s) >= Len(p) /\ SubSeq(s, Len(s) - Len(p) + 1, Len(s)) = p

\* strings.Index, 1-based; 0 where Go returns -1
IndexOf(s, sub) ==
    LET hits == {i \in 1..(Len(s) - Len(sub) + 1) : SubSeq(s, i, i + Len(sub) - 1) = sub}
    IN  IF hits = {} THEN 0 ELSE CHOOSE i \in hits : \A j \in hits : i <= j

\* strings.Contains
Contains(s, sub) == IndexOf(s, sub) # 0

\* strings.LastIndex, 1-based; 0 where Go returns -1
LastIndexOf(s, sub) ==
    LET hits == {i \in 1..(Len(s) - Len(sub) + 1) : SubSeq(s, i, i + Len(sub) - 1) = sub}
    IN  IF hits = {} THEN 0 ELSE CHOOSE i \in hits : \A j \in hits : i >= j

UpperLetters == "ABCDEFGHIJKLMNOPQRSTUVWXYZ"

LowerLetters == "abcdefghijklmnopqrstuvwxyz"

\* unicode.ToLower on one character
LowerChar(c) ==
    LET i == IndexOf(UpperLetters, c)
    IN  IF i = 0 THEN c ELSE SubSeq(LowerLetters, i, i)

RECURSIVE ToLower(_)
\* strings.ToLower
ToLower(s) ==
    IF s = "" THEN "" ELSE LowerChar(SubSeq(s, 1, 1)) \o ToLower(SubSeq(s, 2, Len(s)))

RECURSIVE JoinPath(_)
\* filepath.Join: the non-empty elements separated by "/" (no element of the
\* program's calls holds a separator, "." or "..", so Clean changes nothing)
JoinPath(elems) ==
    IF elems = <<>> THEN ""
    ELSE LET rest == JoinPath(Tail(elems))
         IN  IF Head(elems) = "" THEN rest
             ELSE IF rest = "" THEN Head(elems)
             ELSE Head(elems) \o "/" \o rest

\* os.FileInfo.Name of a walked path: the last path element
BaseName(path) == SubSeq(path, LastIndexOf(path, "/") + 1, Len(path))

\* filepath.Rel(base, path) for a path the walk found under base
RelPath(base, path) ==
    IF path = base THEN "."
    ELSE SubSeq(path, Len(base) + 2, Len(path))

\* byte order of the characters that occur in keys, names and paths
Ascii == "-./0123456789:ABCDEFGHIJKLMNOPQRSTUVWXYZ[]_abcdefghijklmnopqrstuvwxyz"

RECURSIVE StrLess(_, _)
\* a < b in the bytewise string order of Go
StrLess(a, b) ==
    IF b = "" THEN FALSE
    ELSE IF a = "" THEN TRUE
    ELSE LET x == IndexOf(Ascii, SubSeq(a, 1, 1))
             y == IndexOf(Ascii, SubSeq(b, 1, 1))
         IN  IF x # y THEN x < y
             ELSE StrLess(SubSeq(a, 2, Len(a)), SubSeq(b, 2, Len(b)))

RECURSIVE SortStrings(_)
\* sort.Strings of a finite set of strings
SortStrings(S) ==
    IF S = {} THEN <<>>
    ELSE LET m == CHOOSE x \in S : \A y \in S \ {x} : StrLess(x, y)
         IN  <<m>> \o SortStrings(S \ {m})

\* the elements of a sequence
Range(q) == {q[i] : i \in DOMAIN q}

RECURSIVE Split(_, _)
\* strings.Split for a one-character separator
Split(s, sep) ==
    LET i == IndexOf(s, sep)
    IN  IF i = 0 THEN <<s>>
        ELSE <<SubSeq(s, 1, i - 1)>> \o Split(SubSeq(s, i + 1, Len(s)), sep)

RECURSIVE JoinStrings(_, _)
\* strings.Join
JoinStrings(parts, sep) ==
    IF parts = <<>> THEN ""
    ELSE IF Len(parts) = 1 THEN parts[1]
    ELSE parts[1] \o sep \o JoinStrings(Tail(parts), sep)

\* strings.TrimSuffix
TrimSuffix(s, suffix) ==
    IF HasSuffix(s, suffix) THEN SubSeq(s, 1, Len(s) - Len(suffix)) ELSE s

(***************************************************************************)
(* Generic documents (map[string]interface{}): a value is a string scalar, *)
(* a map from keys to values, or a list of values.                         *)
(***************************************************************************)

Str(x) == [t |-> "str", v |-> x]

Map(f) == [t |-> "map", v |-> f]

List(q) == [t |-> "list", v |-> q]

\* the map with no key
EmptyMap == [k \in {} |-> Str("")]

\* the builtin delete(m, k)
Delete(m, k) == [x \in (DOMAIN m) \ {k} |-> m[x]]

RECURSIVE DeleteAll(_, _)
\* delete(m, k) for each k of a slice, in order
DeleteAll(m, keys) ==
    IF keys = <<>> THEN m ELSE DeleteAll(Delete(m, Head(keys)), Tail(keys))

\* unstructured.Unstructured.GetKind: the string under "kind", else ""
GetKind(obj) ==
    IF "kind" \in DOMAIN obj /\ obj["kind"].t = "str" THEN obj["kind"].v ELSE ""

(***************************************************************************)
(* internal/sanitizer/sanitizer.go                                         *)
(***************************************************************************)

\* sanitizeMetadata: the metadata fields removed from every record
fieldsToRemove ==
    << "uid", "selfLink", "resourceVersion", "generation", "creationTimestamp",
       "deletionTimestamp", "deletionGracePeriodSeconds", "managedFields" >>

\* sanitizeMetadata: the annotations block of the metadata map
sanitizeAnnotations(metadataMap) ==
    IF "annotations" \in DOMAIN metadataMap /\ metadataMap["annotations"].t = "map"
    THEN LET annotationsMap ==
                 DeleteAll(metadataMap["annotations"].v,
                           << "kubectl.kubernetes.io/last-applied-configuration",
                              "deployment.kubernetes.io/revision" >>)
         IN  IF DOMAIN annotationsMap = {}
             THEN Delete(metadataMap, "annotations")
             ELSE [metadataMap EXCEPT !["annotations"] = Map(annotationsMap)]
    ELSE metadataMap

\* mutant of sanitizeLabels: the labels are removed altogether
sanitizeLabelsDropAll(metadataMap) == Delete(metadataMap, "labels")

\* sanitizeMetadata: the labels block of the metadata map
sanitizeLabels(metadataMap) ==
    IF "labels" \in DOMAIN metadataMap /\ metadataMap["labels"].t = "map"
    THEN LET labelsMap == Delete(metadataMap["labels"].v, "pod-template-hash")
         IN  IF DOMAIN labelsMap = {}
             THEN Delete(metadataMap, "labels")
             ELSE [metadataMap EXCEPT !["labels"] = Map(labelsMap)]
    ELSE metadataMap

\* YAMLSanitizer.sanitizeMetadata
sanitizeMetadata(obj) ==
    IF "metadata" \notin DOMAIN obj \/ obj["metadata"].t # "map" THEN obj
    ELSE [obj EXCEPT !["metadata"] =
             Map(sanitizeLabels(sanitizeAnnotations(DeleteAll(@.v, fieldsToRemove))))]

\* sanitizeSpec: delete(portMap, "nodePort") for every map entry of spec.ports
stripNodePorts(specMap) ==
    IF "ports" \in DOMAIN specMap /\ specMap["ports"].t = "list"
    THEN [specMap EXCEPT !["ports"] =
             List([i \in DOMAIN @.v |->
                      IF @.v[i].t = "map" THEN Map(Delete(@.v[i].v, "nodePort"))
                      ELSE @.v[i]])]
    ELSE specMap

\* YAMLSanitizer.sanitizeSpec
sanitizeSpec(obj) ==
    IF "spec" \notin DOMAIN obj \/ obj["spec"].t # "map" THEN obj
    ELSE LET kind == GetKind(obj)
             s0 == obj["spec"].v
             s1 == IF kind = "Service"
                   THEN stripNodePorts(DeleteAll(s0, <<"clusterIP", "clusterIPs">>))
                   ELSE s0
             s2 == IF kind = "PersistentVolumeClaim"
                   THEN DeleteAll(s1, <<"volumeName", "volumeMode">>)
                   ELSE s1
             s3 == IF kind = "PersistentVolume" THEN Delete(s2, "claimRef") ELSE s2
         IN  [obj EXCEPT !["spec"] = Map(s3)]

\* YAMLSanitizer.sanitizeStatus
sanitizeStatus(obj) == Delete(obj, "status")

\* applyCustomStripFields: the static list of field paths
staticStripFields ==
    << "metadata.uid",
       "metadata.selfLink",
       "metadata.resourceVersion",
       "metadata.generation",
       "metadata.creationTimestamp",
       "metadata.annotations[kubectl.kubernetes.io/last-applied-configuration]",
       "metadata.annotations[deployment.kubernetes.io/revision]",
       "status",
       "spec.clusterIP",
       "spec.clusterIPs",
       "spec.ports[].nodePort" >>

RECURSIVE removeFieldByPath(_, _)
RECURSIVE removeNested(_, _, _)

\* removeFieldByPath, the loop over parts[:len(parts)-1] from index i on, and the
\* final delete; the result is the map `current` as the loop leaves it
removeNested(current, parts, i) ==
    IF i > Len(parts) - 1 THEN Delete(current, parts[Len(parts)])
    ELSE LET part == parts[i]
         IN  IF Contains(part, "[]")
             THEN LET arrayField == TrimSuffix(part, "[]")
                      remainingPath == JoinStrings(SubSeq(parts, i + 1, Len(parts)), ".")
                  IN  IF arrayField \in DOMAIN current /\ current[arrayField].t = "list"
                      THEN [current EXCEPT ![arrayField] =
                               List([j \in DOMAIN @.v |->
                                        IF @.v[j].t = "map"
                                        THEN Map(removeFieldByPath(@.v[j].v, remainingPath))
                                        ELSE @.v[j]])]
                      ELSE current
             ELSE IF Contains(part, "[") /\ Contains(part, "]")
             THEN LET fieldName == SubSeq(part, 1, IndexOf(part, "[") - 1)
                      key == SubSeq(part, IndexOf(part, "[") + 1, IndexOf(part, "]") - 1)
                  IN  IF fieldName \in DOMAIN current /\ current[fieldName].t = "map"
                      THEN [current EXCEPT ![fieldName] = Map(Delete(@.v, key))]
                      ELSE current
             ELSE IF part \in DOMAIN current /\ current[part].t = "map"
             THEN [current EXCEPT ![part] = Map(removeNested(@.v, parts, i + 1))]
             ELSE current

\* mutant of removeFieldByPath: the last segment is also deleted at the top level
removeFieldByPathLastSegment(obj, path) ==
    IF path = "" THEN obj
    ELSE LET parts == Split(path, ".")
         IN  IF Len(parts) = 1 THEN Delete(obj, parts[1])
             ELSE Delete(removeNested(obj, parts, 1), parts[Len(parts)])

\* YAMLSanitizer.removeFieldByPath
removeFieldByPath(obj, path) ==
    IF path = "" THEN obj
    ELSE LET parts == Split(path, ".")
         IN  IF Len(parts) = 1 THEN Delete(obj, parts[1])
             ELSE removeNested(obj, parts, 1)

RECURSIVE removeFields(_, _)
\* applyCustomStripFields: the loop over the field paths
removeFields(obj, paths) ==
    IF paths = <<>> THEN obj
    ELSE removeFields(removeFieldByPath(obj, Head(paths)), Tail(paths))

\* mutant of applyCustomStripFields: only the paths under metadata are stripped
applyCustomStripFieldsMetadataOnly(obj) == removeFields(obj, SubSeq(staticStripFields, 1, 7))

\* YAMLSanitizer.applyCustomStripFields
applyCustomStripFields(obj) == removeFields(obj, staticStripFields)

RECURSIVE MarshalValue(_)
RECURSIVE MarshalEntries(_, _)
RECURSIVE MarshalItems(_)

\* yaml.Marshal of one value: keys in sorted order, so that equal documents give
\* equal bytes (flow style stands for the block style of the library)
MarshalValue(v) ==
    CASE v.t = "str" -> v.v
      [] v.t = "map" -> "{" \o MarshalEntries(v.v, SortStrings(DOMAIN v.v)) \o "}"
      [] v.t = "list" -> "[" \o MarshalItems(v.v) \o "]"

MarshalEntries(f, keys) ==
    IF keys = <<>> THEN ""
    ELSE keys[1] \o ": " \o MarshalValue(f[keys[1]])
         \o (IF Len(keys) = 1 THEN "" ELSE ", " \o MarshalEntries(f, Tail(keys)))

MarshalItems(q) ==
    IF q = <<>> THEN ""
    ELSE MarshalValue(q[1]) \o (IF Len(q) = 1 THEN "" ELSE ", " \o MarshalItems(Tail(q)))

\* yaml.Marshal(unstructured.Object)
Marshal(obj) == MarshalValue(Map(obj))

\* sanitizeResource, lines 62-66: the four sanitization passes in order
applySanitizationRules(obj) ==
    applyCustomStripFields(sanitizeStatus(sanitizeSpec(sanitizeMetadata(obj))))

(***************************************************************************)
(* internal/collector/collector.go                                         *)
(***************************************************************************)

\* Does the slice hold the string (the `for _, x := range list` loops)
InList(list, x) == \E i \in DOMAIN list : list[i] = x

\* mutant of shouldIncludeResource: the include list is consulted first
shouldIncludeResourceIncludeFirst(k8s, resourceType) ==
    IF InList(k8s.IncludeResources, resourceType) THEN TRUE
    ELSE IF InList(k8s.ExcludeResources, resourceType) THEN FALSE
    ELSE Len(k8s.IncludeResources) = 0

\* KubernetesCollector.shouldIncludeResource
shouldIncludeResource(k8s, resourceType) ==
    IF InList(k8s.ExcludeResources, resourceType) THEN FALSE
    ELSE IF Len(k8s.IncludeResources) = 0 THEN TRUE
    ELSE InList(k8s.IncludeResources, resourceType)

\* mutant of shouldIncludeNamespace: an empty include list includes nothing
shouldIncludeNamespaceEmptyNone(k8s, namespace) ==
    IF InList(k8s.ExcludeNamespaces, namespace) THEN FALSE
    ELSE InList(k8s.IncludeNamespaces, namespace)

\* KubernetesCollector.shouldIncludeNamespace
shouldIncludeNamespace(k8s, namespace) ==
    IF InList(k8s.ExcludeNamespaces, namespace) THEN FALSE
    ELSE IF Len(k8s.IncludeNamespaces) > 0 THEN InList(k8s.IncludeNamespaces, namespace)
    ELSE TRUE

\* namespace_test.go: shouldIncludeNamespaceLogic, the reference of the test
shouldIncludeNamespaceLogic(namespace, includeList, excludeList) ==
    IF InList(excludeList, namespace) THEN FALSE
    ELSE IF Len(includeList) > 0 THEN InList(includeList, namespace)
    ELSE TRUE

\* CollectResources: the resourceTypes map. For each key: the Kind and APIVersion
\* its collect function stamps on a record, and `filter`, the namespace test the
\* function applies to a listed item: "namespace" (shouldIncludeNamespace of the
\* item's namespace; the record keeps the namespace), "name" (collectNamespaces:
\* shouldIncludeNamespace of the item's name; the record's Namespace is ""),
\* "none" (no test; the record's Namespace is "")
resourceTypes ==
    [ namespaces |-> [Kind |-> "Namespace", APIVersion |-> "v1", filter |-> "name"],
      deployments |-> [Kind |-> "Deployment", APIVersion |-> "apps/v1", filter |-> "namespace"],
      daemonsets |-> [Kind |-> "DaemonSet", APIVersion |-> "apps/v1", filter |-> "namespace"],
      statefulsets |-> [Kind |-> "StatefulSet", APIVersion |-> "apps/v1", filter |-> "namespace"],
      services |-> [Kind |-> "Service", APIVersion |-> "v1", filter |-> "namespace"],
      configmaps |-> [Kind |-> "ConfigMap", APIVersion |-> "v1", filter |-> "namespace"],
      secrets |-> [Kind |-> "Secret", APIVersion |-> "v1", filter |-> "namespace"],
      ingresses |-> [Kind |-> "Ingress", APIVersion |-> "networking.k8s.io/v1",
                     filter |-> "namespace"],
      persistentvolumes |-> [Kind |-> "PersistentVolume", APIVersion |-> "v1",
                             filter |-> "none"],
      persistentvolumeclaims |-> [Kind |-> "PersistentVolumeClaim", APIVersion |-> "v1",
                                  filter |-> "namespace"],
      storageclasses |-> [Kind |-> "StorageClass", APIVersion |-> "storage.k8s.io/v1",
                          filter |-> "none"],
      serviceaccounts |-> [Kind |-> "ServiceAccount", APIVersion |-> "v1",
                           filter |-> "namespace"],
      roles |-> [Kind |-> "Role", APIVersion |-> "rbac.authorization.k8s.io/v1",
                 filter |-> "namespace"],
      rolebindings |-> [Kind |-> "RoleBinding", APIVersion |-> "rbac.authorization.k8s.io/v1",
                        filter |-> "namespace"],
      clusterroles |-> [Kind |-> "ClusterRole", APIVersion |-> "rbac.authorization.k8s.io/v1",
                        filter |-> "none"],
      clusterrolebindings |-> [Kind |-> "ClusterRoleBinding",
                               APIVersion |-> "rbac.authorization.k8s.io/v1",
                               filter |-> "none"],
      networkpolicies |-> [Kind |-> "NetworkPolicy", APIVersion |-> "networking.k8s.io/v1",
                           filter |-> "namespace"] ]

\* isSystemClusterRole / isSystemClusterRoleBinding
isSystemClusterRole(name) ==
    \E prefix \in {"system:", "kubernetes-", "k8s-", "cilium", "coredns", "kube-dns",
                   "metrics-server"} : HasPrefix(name, prefix)

\* The tests on an item other than the namespace test: collectConfigMaps skips
\* kube-root-ca.crt, collectServiceAccounts skips default, collectSecrets skips two
\* secret types, collectClusterRoles and collectClusterRoleBindings skip system names
skipItem(resourceType, item) ==
    CASE resourceType = "configmaps" -> item.name = "kube-root-ca.crt"
      [] resourceType = "serviceaccounts" -> item.name = "default"
      [] resourceType = "secrets" ->
            /\ "type" \in DOMAIN item.object.doc
            /\ item.object.doc["type"] \in {Str("kubernetes.io/service-account-token"),
                                            Str("helm.sh/release.v1")}
      [] resourceType = "clusterroles" ->
            item.name \in {"admin", "edit", "view"} \/ isSystemClusterRole(item.name)
      [] resourceType = "clusterrolebindings" -> isSystemClusterRole(item.name)
      [] OTHER -> FALSE

\* mutant of collectItem: collectNamespaces without its namespace test
collectItemNoNameTest(k8s, resourceType, item) ==
    LET rt == resourceTypes[resourceType]
    IN  (rt.filter # "namespace" \/ shouldIncludeNamespace(k8s, item.namespace))
        /\ ~skipItem(resourceType, item)

\* The condition under which a collect function appends a listed item
collectItem(k8s, resourceType, item) ==
    LET rt == resourceTypes[resourceType]
        passes == CASE rt.filter = "namespace" -> shouldIncludeNamespace(k8s, item.namespace)
                    [] rt.filter = "name" -> shouldIncludeNamespace(k8s, item.name)
                    [] OTHER -> TRUE
    IN  passes /\ ~skipItem(resourceType, item)

\* The Resource a collect function appends for a listed item
ResourceOf(resourceType, item) ==
    LET rt == resourceTypes[resourceType]
    IN  [ APIVersion |-> rt.APIVersion,
          Kind |-> rt.Kind,
          Namespace |-> IF rt.filter = "namespace" THEN item.namespace ELSE "",
          Name |-> item.name,
          Object |-> item.object ]

RECURSIVE collectKind(_, _, _)
\* One collect function: the loop over the listed items (a sequence, in the order
\* the API server returns them)
collectKind(k8s, resourceType, items) ==
    IF items = <<>> THEN <<>>
    ELSE (IF collectItem(k8s, resourceType, Head(items))
          THEN <<ResourceOf(resourceType, Head(items))>> ELSE <<>>)
         \o collectKind(k8s, resourceType, Tail(items))

RECURSIVE collectLoop(_, _, _, _)
\* CollectResources, the loop `for resourceType, collectFunc := range resourceTypes`:
\* `order` is the order in which the map is iterated, `api` gives each type's
\* listing, `failing` the types whose List call returns an error (logged, skipped)
collectLoop(k8s, api, failing, order) ==
    IF order = <<>> THEN <<>>
    ELSE (IF shouldIncludeResource(k8s, Head(order)) /\ Head(order) \notin failing
          THEN collectKind(k8s, Head(order), api[Head(order)])
          ELSE <<>>)
         \o collectLoop(k8s, api, failing, Tail(order))

\* mutant of CollectResources: a failed listing aborts the collection
CollectResourcesAbortOnError(k8s, api, failing, order) ==
    IF \E t \in failing : shouldIncludeResource(k8s, t)
    THEN [resources |-> <<>>, err |-> "collect"]
    ELSE [resources |-> collectLoop(k8s, api, failing, order), err |-> ""]

\* KubernetesCollector.CollectResources: the records and the error (always nil)
CollectResources(k8s, api, failing, order) ==
    [resources |-> collectLoop(k8s, api, failing, order), err |-> ""]

(***************************************************************************)
(* sanitizer.go: records                                                   *)
(***************************************************************************)

\* runtime.DefaultUnstructuredConverter.ToUnstructured: the generic document of a
\* payload, or an error for a payload that has none
ToUnstructured(object) ==
    IF object.convertible THEN [doc |-> object.doc, err |-> ""]
    ELSE [doc |-> EmptyMap, err |-> "failed to convert to unstructured"]

\* YAMLSanitizer.sanitizeResource
sanitizeResource(resource) ==
    LET u == ToUnstructured(resource.Object)
    IN  IF u.err # "" THEN [err |-> u.err, res |-> <<>>]
        ELSE [ err |-> "",
               res |-> << [ APIVersion |-> resource.APIVersion,
                            Kind |-> resource.Kind,
                            Namespace |-> resource.Namespace,
                            Name |-> resource.Name,
                            YAML |-> Marshal(applySanitizationRules(u.doc)) ] >> ]

RECURSIVE sanitizeLoop(_, _)
\* SanitizeResources, the loop: `sanitized` is the slice built so far; the first
\* error ends the loop with (nil, err)
sanitizeLoop(resources, sanitized) ==
    IF resources = <<>> THEN [sanitized |-> sanitized, err |-> ""]
    ELSE LET r == sanitizeResource(Head(resources))
         IN  IF r.err # ""
             THEN [sanitized |-> <<>>, err |-> "failed to sanitize resource"]
             ELSE sanitizeLoop(Tail(resources), sanitized \o r.res)

\* YAMLSanitizer.SanitizeResources
SanitizeResources(resources) == sanitizeLoop(resources, <<>>)

(***************************************************************************)
(* internal/git/git.go: paths, working tree, trees                         *)
(*                                                                         *)
(* The working tree `wt` maps the absolute path of every regular file under *)
(* the working directory (the files of .git included) to its bytes. A tree  *)
(* (the index, the tree of a commit) maps a path relative to the working    *)
(* directory to bytes. A branch is the sequence of the trees of its commits.*)
(***************************************************************************)

\* NewManager: the working directory of every Manager
workDirDefault == "/tmp/kube-backup"

\* CleanupOldBackups, lines 334-341: the relative path of a record
resourceRelPath(resource) ==
    IF resource.Namespace = ""
    THEN JoinPath(<<"cluster-scoped", ToLower(resource.Kind), resource.Name \o ".yaml">>)
    ELSE JoinPath(<<"namespaces", resource.Namespace, ToLower(resource.Kind),
                    resource.Name \o ".yaml">>)

\* mutant of resourcePath: the directory of the kind is left out
resourcePathNoKind(workDir, resource) ==
    IF resource.Namespace = ""
    THEN JoinPath(<<workDir, "cluster-scoped", resource.Name \o ".yaml">>)
    ELSE JoinPath(<<workDir, "namespaces", resource.Namespace, resource.Name \o ".yaml">>)

\* writeResources, lines 246-254: the path a record is written to
resourcePath(workDir, resource) ==
    IF resource.Namespace = ""
    THEN JoinPath(<<workDir, "cluster-scoped", ToLower(resource.Kind),
                    resource.Name \o ".yaml">>)
    ELSE JoinPath(<<workDir, "namespaces", resource.Namespace, ToLower(resource.Kind),
                    resource.Name \o ".yaml">>)

\* mutant of dumpResourcePath: the kind is not lower-cased
dumpResourcePathKeepCase(workDir, resource) ==
    IF resource.Namespace = ""
    THEN JoinPath(<<workDir, "cluster-scoped", resource.Kind, resource.Name \o ".yaml">>)
    ELSE JoinPath(<<workDir, "namespaces", resource.Namespace, resource.Kind,
                    resource.Name \o ".yaml">>)

\* dumpResourcesLocally, main.go lines 487-497: the path a record is dumped to
dumpResourcePath(workDir, resource) ==
    IF resource.Namespace = ""
    THEN JoinPath(<<workDir, "cluster-scoped", ToLower(resource.Kind),
                    resource.Name \o ".yaml">>)
    ELSE JoinPath(<<workDir, "namespaces", resource.Namespace, ToLower(resource.Kind),
                    resource.Name \o ".yaml">>)

\* CleanupOldBackups, lines 332-343: the set of current resource paths
currentPaths(currentResources) ==
    {resourceRelPath(currentResources[i]) : i \in DOMAIN currentResources}

\* CleanupOldBackups, the walk function on a regular file: TRUE when it removes it
removesFile(workDir, paths, path) ==
    /\ HasSuffix(BaseName(path), ".yaml")
    /\ ~HasPrefix(RelPath(workDir, path), ".git")
    /\ RelPath(workDir, path) \notin paths

RECURSIVE SeqLess(_, _)
\* lexical order of two name sequences
SeqLess(a, b) ==
    IF b = <<>> THEN FALSE
    ELSE IF a = <<>> THEN TRUE
    ELSE IF a[1] = b[1] THEN SeqLess(Tail(a), Tail(b))
    ELSE StrLess(a[1], b[1])

\* filepath.Walk visits p before q: lexical order of the names, directory by directory
WalkBefore(p, q) == SeqLess(Split(p, "/"), Split(q, "/"))

\* The files CleanupOldBackups removes when no os.Remove fails
staleFiles(files, workDir, currentResources) ==
    {path \in DOMAIN files : removesFile(workDir, currentPaths(currentResources), path)}

\* The working tree without a set of files
RemoveFiles(files, gone) == [path \in (DOMAIN files) \ gone |-> files[path]]

\* mutant of CleanupOldBackups: nothing is removed when there is no current record
CleanupOldBackupsSkipEmpty(files, workDir, currentResources, failAt) ==
    LET stale == IF currentResources = <<>> THEN {}
                 ELSE staleFiles(files, workDir, currentResources)
        gone == IF failAt = "" THEN stale
                ELSE {path \in stale : WalkBefore(path, failAt)}
    IN  [ files |-> RemoveFiles(files, gone),
          removed |-> gone,
          err |-> IF failAt = "" THEN "" ELSE "cleanup" ]

\* Manager.CleanupOldBackups: the working tree it leaves and the error it returns.
\* failAt is the file whose os.Remove fails ("" when none does): the walk ends
\* there, with the stale files it visited before already removed
CleanupOldBackups(files, workDir, currentResources, failAt) ==
    LET stale == staleFiles(files, workDir, currentResources)
        gone == IF failAt = "" THEN stale
                ELSE {path \in stale : WalkBefore(path, failAt)}
    IN  [ files |-> RemoveFiles(files, gone),
          removed |-> gone,
          err |-> IF failAt = "" THEN "" ELSE "cleanup" ]

RECURSIVE writeLoop(_, _, _, _)
\* writeResources, the loop over the first n records: MkdirAll and WriteFile
writeLoop(files, workDir, resources, n) ==
    IF n = 0 THEN files
    ELSE LET before == writeLoop(files, workDir, resources, n - 1)
             path == resourcePath(workDir, resources[n])
         IN  [p \in (DOMAIN before) \cup {path} |->
                 IF p = path THEN resources[n].YAML ELSE before[p]]

\* Manager.writeResources: failAt is the index of the record whose MkdirAll or
\* WriteFile fails (0 when none does); the records before it are written
writeResources(files, workDir, resources, failAt) ==
    IF failAt = 0
    THEN [files |-> writeLoop(files, workDir, resources, Len(resources)), err |-> ""]
    ELSE [files |-> writeLoop(files, workDir, resources, failAt - 1), err |-> "write"]

\* The tree with no file
EmptyTree == [path \in {} |-> ""]

\* The files of the working tree that Git sees: all but those of .git, by their
\* path relative to the working directory
WorktreeTree(files, workDir) ==
    LET tracked == {path \in DOMAIN files : ~HasPrefix(RelPath(workDir, path), ".git/")}
    IN  [rel \in {RelPath(workDir, path) : path \in tracked} |->
            files[workDir \o "/" \o rel]]

\* The tree of the last commit of a branch (no file on an unborn branch)
HeadTree(log) == IF log = <<>> THEN EmptyTree ELSE log[Len(log)]

\* worktree.Status().IsClean(): no difference between the last commit, the index
\* and the working tree
IsClean(files, workDir, idx, log) ==
    idx = HeadTree(log) /\ WorktreeTree(files, workDir) = idx

\* mutant of commitChanges: a commit is created whatever the status
commitChangesAlways(files, workDir, idx, log, fails) ==
    IF fails THEN [log |-> log, committed |-> FALSE, err |-> "commit"]
    ELSE [log |-> Append(log, idx), committed |-> TRUE, err |-> ""]

\* Manager.commitChanges: nothing when the status is clean, else one commit of the
\* index; `fails` is the outcome of worktree.Commit
commitChanges(files, workDir, idx, log, fails) ==
    IF IsClean(files, workDir, idx, log)
    THEN [log |-> log, committed |-> FALSE, err |-> ""]
    ELSE IF fails THEN [log |-> log, committed |-> FALSE, err |-> "commit"]
    ELSE [log |-> Append(log, idx), committed |-> TRUE, err |-> ""]

\* Is the sequence a a prefix of b (branch a is an ancestor of branch b)
IsPrefix(a, b) == Len(a) <= Len(b) /\ SubSeq(b, 1, Len(a)) = a

(***************************************************************************)
(* go-git, as git.go uses it. A local repository is a record                *)
(*   files    the working tree (see above)                                  *)
(*   index    the staged tree                                               *)
(*   head     the name of the branch HEAD points to                         *)
(*   branches the names of the local branches that exist (have a commit)    *)
(*   log      the commits of the current branch                             *)
(*   origin   the URL of the remote named origin, "" when there is none     *)
(*   fetched  the remote-tracking branch: the remote commits last fetched   *)
(* and the remote repository is a record [branch, log]: the name of its     *)
(* branch and the commits of it (log = <<>>: a completely empty remote).    *)
(***************************************************************************)

\* The branch a repository made by git.PlainInit points HEAD to
initDefaultBranch == "master"

\* The files of the .git directory of a repository made by PlainInit
InitGitFiles(workDir) == [path \in {workDir \o "/.git/HEAD"} |-> "git"]

\* The files of the .git directory of a clone: the remote in this model carries a
\* tag named v1.yaml, whose ref is a file of .git
CloneGitFiles(workDir) ==
    [path \in {workDir \o "/.git/HEAD", workDir \o "/.git/refs/tags/v1.yaml"} |-> "git"]

\* The files of a tree, checked out under the working directory
CheckoutFiles(workDir, tree) ==
    [path \in {workDir \o "/" \o rel : rel \in DOMAIN tree} |->
        tree[RelPath(workDir, path)]]

\* f overridden by g
Override(f, g) == [x \in (DOMAIN f) \cup (DOMAIN g) |-> IF x \in DOMAIN g THEN g[x] ELSE f[x]]

\* git.PlainOpen succeeds when the directory holds a repository
RepositoryExists(files, workDir) == (workDir \o "/.git/HEAD") \in DOMAIN files

\* The error of git.PlainClone ("" for success)
CloneError(remote, transportOk) ==
    IF ~transportOk THEN "authentication required"
    ELSE IF remote.log = <<>> THEN "remote repository is empty"
    ELSE ""

\* The error of Repository.Fetch ("" for success)
FetchError(repo, remote, transportOk) ==
    IF repo.origin = "" THEN "remote not found"
    ELSE IF ~transportOk THEN "authentication required"
    ELSE IF remote.log = <<>> THEN "remote repository is empty"
    ELSE IF repo.fetched = remote.log THEN "already up-to-date"
    ELSE ""

\* mutant of checkoutBranch: a local branch that exists is moved to the commit of
\* the remote branch
checkoutBranchFollowRemote(repo, gitCfg, workDir, remote, env) ==
    LET fetchErr == FetchError(repo, remote, env.fetch)
        fetched == IF fetchErr = "" THEN [repo EXCEPT !.fetched = remote.log] ELSE repo
        localExists == gitCfg.Branch \in fetched.branches
        remoteExists == fetched.fetched # <<>> /\ remote.branch = gitCfg.Branch
    IN  IF fetchErr # "" /\ fetchErr # "already up-to-date"
           /\ ~Contains(fetchErr, "remote repository is empty")
        THEN [repo |-> repo, err |-> "failed to fetch", case |-> "fetch", fetchErr |-> fetchErr]
        ELSE IF ~localExists
        THEN IF ~remoteExists
             THEN \* create a new branch at HEAD: HEAD must resolve to a commit
                  IF env.checkout /\ fetched.log # <<>>
                  THEN [ repo |-> [fetched EXCEPT !.head = gitCfg.Branch,
                                                   !.branches = @ \cup {gitCfg.Branch}],
                         err |-> "", case |-> "new", fetchErr |-> fetchErr ]
                  ELSE [repo |-> fetched, err |-> "", case |-> "new-failed", fetchErr |-> fetchErr]
             ELSE \* create the local branch from the remote branch
                  IF env.checkout
                  THEN [ repo |-> [fetched EXCEPT
                                      !.head = gitCfg.Branch,
                                      !.branches = @ \cup {gitCfg.Branch},
                                      !.log = fetched.fetched,
                                      !.index = HeadTree(fetched.fetched),
                                      !.files = Override(
                                          RemoveFiles(@, DOMAIN CheckoutFiles(workDir, HeadTree(fetched.log))),
                                          CheckoutFiles(workDir, HeadTree(fetched.fetched)))],
                         err |-> "", case |-> "remote", fetchErr |-> fetchErr ]
                  ELSE [ repo |-> fetched, err |-> "failed to create branch from remote",
                         case |-> "remote", fetchErr |-> fetchErr ]
        ELSE \* the local branch exists: check it out
             IF env.checkout
             THEN [ repo |-> [fetched EXCEPT !.head = gitCfg.Branch,
                                              !.log = IF remoteExists THEN fetched.fetched ELSE @],
                    err |-> "", case |-> "local", fetchErr |-> fetchErr ]
             ELSE [repo |-> fetched, err |-> "failed to checkout existing branch", case |-> "local", fetchErr |-> fetchErr]

\* Manager.checkoutBranch. env.fetch: the transport works; env.checkout: the
\* worktree.Checkout call meets no error of its own
checkoutBranch(repo, gitCfg, workDir, remote, env) ==
    LET fetchErr == FetchError(repo, remote, env.fetch)
        fetched == IF fetchErr = "" THEN [repo EXCEPT !.fetched = remote.log] ELSE repo
        localExists == gitCfg.Branch \in fetched.branches
        remoteExists == fetched.fetched # <<>> /\ remote.branch = gitCfg.Branch
    IN  IF fetchErr # "" /\ fetchErr # "already up-to-date"
           /\ ~Contains(fetchErr, "remote repository is empty")
        THEN [repo |-> repo, err |-> "failed to fetch", case |-> "fetch", fetchErr |-> fetchErr]
        ELSE IF ~localExists
        THEN IF ~remoteExists
             THEN \* create a new branch at HEAD: HEAD must resolve to a commit
                  IF env.checkout /\ fetched.log # <<>>
                  THEN [ repo |-> [fetched EXCEPT !.head = gitCfg.Branch,
                                                   !.branches = @ \cup {gitCfg.Branch}],
                         err |-> "", case |-> "new", fetchErr |-> fetchErr ]
                  ELSE [repo |-> fetched, err |-> "", case |-> "new-failed", fetchErr |-> fetchErr]
             ELSE \* create the local branch from the remote branch
                  IF env.checkout
                  THEN [ repo |-> [fetched EXCEPT
                                      !.head = gitCfg.Branch,
                                      !.branches = @ \cup {gitCfg.Branch},
                                      !.log = fetched.fetched,
                                      !.index = HeadTree(fetched.fetched),
                                      !.files = Override(
                                          RemoveFiles(@, DOMAIN CheckoutFiles(workDir, HeadTree(fetched.log))),
                                          CheckoutFiles(workDir, HeadTree(fetched.fetched)))],
                         err |-> "", case |-> "remote", fetchErr |-> fetchErr ]
                  ELSE [ repo |-> fetched, err |-> "failed to create branch from remote",
                         case |-> "remote", fetchErr |-> fetchErr ]
        ELSE \* the local branch exists: check it out
             IF env.checkout
             THEN [repo |-> [fetched EXCEPT !.head = gitCfg.Branch], err |-> "", case |-> "local", fetchErr |-> fetchErr]
             ELSE [repo |-> fetched, err |-> "failed to checkout existing branch", case |-> "local", fetchErr |-> fetchErr]

\* The repository record of a directory without a repository
NoRepository(files) ==
    [ files |-> files, index |-> EmptyTree, head |-> "", branches |-> {},
      log |-> <<>>, origin |-> "", fetched |-> <<>> ]

\* The outcome of checkoutBranch, with the error of the clone that preceded it
\* ("-" when nothing was cloned)
AfterClone(r, cloneErr) ==
    [repo |-> r.repo, err |-> r.err, case |-> r.case, fetchErr |-> r.fetchErr, cloneErr |-> cloneErr]

\* mutant of initRepository: the clone of an empty remote is no special case
initRepositoryNoEmptyRemote(repo, gitCfg, workDir, remote, env) ==
    IF RepositoryExists(repo.files, workDir)
    THEN AfterClone(checkoutBranch(repo, gitCfg, workDir, remote, env), "-")
    ELSE LET cloneErr == CloneError(remote, env.clone)
         IN  IF cloneErr = ""
             THEN AfterClone(checkoutBranch(
                      [ files |-> Override(Override(repo.files, CloneGitFiles(workDir)),
                                           CheckoutFiles(workDir, HeadTree(remote.log))),
                        index |-> HeadTree(remote.log),
                        head |-> remote.branch,
                        branches |-> {remote.branch},
                        log |-> remote.log,
                        origin |-> gitCfg.Repository,
                        fetched |-> remote.log ],
                      gitCfg, workDir, remote, env), cloneErr)
             ELSE [ repo |-> repo, err |-> "failed to clone repository",
                    case |-> "clone", fetchErr |-> "-", cloneErr |-> cloneErr ]

\* Manager.initRepository. env.clone, env.fetch: the transport works; env.init,
\* env.createRemote, env.checkout: PlainInit, CreateRemote, Checkout meet no error
initRepository(repo, gitCfg, workDir, remote, env) ==
    IF RepositoryExists(repo.files, workDir)
    THEN AfterClone(checkoutBranch(repo, gitCfg, workDir, remote, env), "-")
    ELSE LET cloneErr == CloneError(remote, env.clone)
         IN  IF cloneErr = ""
             THEN AfterClone(checkoutBranch(
                      [ files |-> Override(Override(repo.files, CloneGitFiles(workDir)),
                                           CheckoutFiles(workDir, HeadTree(remote.log))),
                        index |-> HeadTree(remote.log),
                        head |-> remote.branch,
                        branches |-> {remote.branch},
                        log |-> remote.log,
                        origin |-> gitCfg.Repository,
                        fetched |-> remote.log ],
                      gitCfg, workDir, remote, env), cloneErr)
             ELSE IF Contains(cloneErr, "remote repository is empty")
             THEN IF ~env.init
                  THEN [ repo |-> repo, err |-> "failed to initialize repository",
                         case |-> "init", fetchErr |-> "-", cloneErr |-> cloneErr ]
                  ELSE IF ~env.createRemote
                  THEN [ repo |-> [repo EXCEPT !.files = Override(@, InitGitFiles(workDir)),
                                               !.head = initDefaultBranch],
                         err |-> "failed to add remote origin",
                         case |-> "init", fetchErr |-> "-", cloneErr |-> cloneErr ]
                  ELSE AfterClone(checkoutBranch(
                           [ files |-> Override(repo.files, InitGitFiles(workDir)),
                             index |-> EmptyTree,
                             head |-> initDefaultBranch,
                             branches |-> {},
                             log |-> <<>>,
                             origin |-> gitCfg.Repository,
                             fetched |-> <<>> ],
                           gitCfg, workDir, remote, env), cloneErr)
             ELSE [ repo |-> repo, err |-> "failed to clone repository",
                    case |-> "clone", fetchErr |-> "-", cloneErr |-> cloneErr ]

\* The error of Worktree.Pull ("" when it fast-forwards the branch)
PullError(repo, workDir, remote, transportOk) ==
    IF repo.origin = "" THEN "remote not found"
    ELSE IF ~transportOk THEN "authentication required"
    ELSE IF remote.log = <<>> THEN "remote repository is empty"
    ELSE IF IsPrefix(remote.log, repo.log) THEN "already up-to-date"
    ELSE IF ~IsPrefix(repo.log, remote.log) THEN "non-fast-forward update"
    ELSE IF WorktreeTree(repo.files, workDir) # repo.index
    THEN "worktree contains unstaged changes"
    ELSE ""

\* Worktree.Pull when it fast-forwards: the branch, the index and the tracked files
\* become those of the remote commit; untracked files stay
PullFastForward(repo, workDir, remote) ==
    [repo EXCEPT
        !.log = remote.log,
        !.fetched = remote.log,
        !.branches = @ \cup {repo.head},
        !.index = HeadTree(remote.log),
        !.files = Override(RemoveFiles(@, DOMAIN CheckoutFiles(workDir, repo.index)),
                           CheckoutFiles(workDir, HeadTree(remote.log)))]

\* Manager.pullLatestChanges
pullLatestChanges(repo, workDir, remote, transportOk) ==
    LET err == PullError(repo, workDir, remote, transportOk)
    IN  IF err # "" /\ err # "already up-to-date"
           /\ ~Contains(err, "remote repository is empty")
        THEN [repo |-> repo, err |-> err]
        ELSE IF err = "" THEN [repo |-> PullFastForward(repo, workDir, remote), err |-> ""]
        ELSE [repo |-> repo, err |-> ""]

\* Manager.addChanges: worktree.Add("."), which stages every addition, change and
\* deletion; `fails` is the outcome of the call
addChanges(repo, workDir, fails) ==
    IF fails THEN [repo |-> repo, err |-> "add"]
    ELSE [repo |-> [repo EXCEPT !.index = WorktreeTree(repo.files, workDir)], err |-> ""]

\* The error of Repository.Push ("" when it updates the remote branch)
PushError(repo, remote, transportOk) ==
    IF repo.origin = "" THEN "remote not found"
    ELSE IF ~transportOk THEN "authentication required"
    ELSE IF repo.log = remote.log THEN "already up-to-date"
    ELSE IF ~IsPrefix(remote.log, repo.log) THEN "non-fast-forward update"
    ELSE ""

\* Manager.pushChanges: the error of Push is returned as it is
pushChanges(repo, remote, transportOk) ==
    LET err == PushError(repo, remote, transportOk)
    IN  IF err = ""
        THEN [remote |-> [branch |-> repo.head, log |-> repo.log], err |-> ""]
        ELSE [remote |-> remote, err |-> err]

(***************************************************************************)
(* The environment: configurations, cluster contents, remote contents      *)
(***************************************************************************)

\* config.Load: the default selection lists
DefaultKubernetes ==
    [ IncludeResources |->
          << "deployments", "daemonsets", "statefulsets", "services", "configmaps", "secrets",
             "ingresses", "namespaces", "roles", "rolebindings", "clusterroles",
             "clusterrolebindings", "serviceaccounts", "persistentvolumes",
             "persistentvolumeclaims", "storageclasses", "networkpolicies" >>,
      ExcludeResources |-> <<"pods", "events", "endpoints", "replicasets">>,
      IncludeNamespaces |-> <<>>,
      ExcludeNamespaces |-> <<"kube-system", "default", "kube-node-lease">> ]

\* config.Load: the Git settings of a deployment with GIT_REPOSITORY set
DefaultGit == [Repository |-> "git@github.com:test/repo.git", Branch |-> "main"]

\* The configurations of the runs: the defaults, and one that selects two kinds
Configs ==
    { [Kubernetes |-> DefaultKubernetes, Git |-> DefaultGit],
      [ Kubernetes |-> [DefaultKubernetes EXCEPT
                           !.IncludeResources = <<"services", "namespaces">>],
        Git |-> DefaultGit ] }

\* A payload with a generic document
Object(doc) == [convertible |-> TRUE, doc |-> doc]

\* A payload that cannot be converted to a generic document
BadObject == [convertible |-> FALSE, doc |-> EmptyMap]

NamespaceDoc ==
    ("metadata" :> Map(("name" :> Str("prod")) @@ ("uid" :> Str("u-1"))
                       @@ ("resourceVersion" :> Str("11"))))
    @@ ("spec" :> Map("finalizers" :> List(<<Str("kubernetes")>>)))
    @@ ("status" :> Map("phase" :> Str("Active")))

ServiceDoc(port) ==
    ("kind" :> Str("Service"))
    @@ ("metadata" :> Map(("name" :> Str("web")) @@ ("namespace" :> Str("prod"))
                          @@ ("resourceVersion" :> Str("21"))
                          @@ ("annotations" :> Map(
                                "kubectl.kubernetes.io/last-applied-configuration" :> Str("{}")))))
    @@ ("spec" :> Map(("clusterIP" :> Str("10.0.0.1"))
                      @@ ("ports" :> List(<<Map(("port" :> Str(port))
                                                @@ ("nodePort" :> Str("30080")))>>))))
    @@ ("status" :> Map("loadBalancer" :> Map(EmptyMap)))

VolumeDoc ==
    ("metadata" :> Map(("name" :> Str("pv1")) @@ ("uid" :> Str("u-3"))))
    @@ ("spec" :> Map(("capacity" :> Str("1Gi")) @@ ("claimRef" :> Map("name" :> Str("data")))))
    @@ ("status" :> Map("phase" :> Str("Bound")))

\* The keys of the resourceTypes map whose listing may be non-empty in the runs
ListedTypes == {"namespaces", "services"}

\* What the API server may return for each listed type
Listings ==
    [ namespaces |-> { <<>>, <<[namespace |-> "", name |-> "prod", object |-> Object(NamespaceDoc)]>> },
      services |-> { <<>>,
                     <<[namespace |-> "prod", name |-> "web", object |-> Object(ServiceDoc("80"))]>>,
                     <<[namespace |-> "prod", name |-> "web", object |-> BadObject]>> } ]

\* The contents of the cluster at a listing: each type's items
Apis ==
    { [t \in DOMAIN resourceTypes |-> IF t \in ListedTypes THEN f[t] ELSE <<>>] :
        f \in { g \in [ListedTypes -> UNION {Listings[t] : t \in ListedTypes}] :
                  \A t \in ListedTypes : g[t] \in Listings[t] } }

\* The listing of a cluster that holds nothing
EmptyApi == [t \in DOMAIN resourceTypes |-> <<>>]

\* The orders in which Go may iterate the resourceTypes map: every order of the
\* listed types (the other types yield no record, wherever they come)
TypeOrders ==
    { p \o SortStrings((DOMAIN resourceTypes) \ ListedTypes) :
        p \in { q \in [1..Cardinality(ListedTypes) -> ListedTypes] :
                  \A i, j \in DOMAIN q : i # j => q[i] # q[j] } }

\* The tree of the first commit of a remote that is not empty: files that are no
\* snapshots of this program, and an old snapshot of a service
SeedTree ==
    (".github/workflows/ci.yaml" :> "ci") @@ ("README.md" :> "readme") @@ ("top.yaml" :> "old")
    @@ ("namespaces/prod/service/web.yaml" :> "old")

\* The tree of a commit another writer pushes to the remote
ForeignTree(tree) == Override(tree, "docs/notes.yaml" :> "notes")

\* The remote repositories a run may start against
Remotes == { [branch |-> "", log |-> <<>>], [branch |-> "main", log |-> <<SeedTree>>] }

\* What the environment may do to the calls of NewManager
StartupEnvs ==
    [clone : BOOLEAN, init : BOOLEAN, createRemote : BOOLEAN, fetch : BOOLEAN, checkout : BOOLEAN]

\* Bounds of the runs
MaxCycles == 2

MaxFaults == 1

(***************************************************************************)
(* State                                                                   *)
(***************************************************************************)
VARIABLES
    cfg,        \* *config.Config
    pc,         \* where the backup goroutine stands
    cancelled,  \* ctx is cancelled
    repo,       \* Manager.repository with its working tree
    remote,     \* the remote repository
    api,        \* the contents of the cluster at the listing of this cycle
    failing,    \* the types whose listing failed in this cycle
    resources,  \* runBackup: resources
    sanitized,  \* runBackup: sanitizedResources
    cycleErr,   \* the error the last step of this cycle returned
    \* history
    boot,       \* NewManager: the outcome of initRepository
    cycle,      \* the number of cycles started
    ran,        \* the steps of this cycle that were run, in order
    removed,    \* the files this cycle's reconciliation removed
    status,     \* what this cycle's commit step did: "clean", "committed", "failed"
    pulled,     \* this cycle's pull moved the branch
    prev,       \* the last cycle that returned: its raw records, whether its commit
                \* step succeeded, and the error it returned
    faults,     \* the number of disturbances so far: calls of a cycle that the
                \* environment made fail, and commits other writers pushed
    sel,        \* the selection functions applied to a drawn input (SpecSel)
    app,        \* a function of the program applied to a drawn input: the function,
                \* its input and its results (SpecPath, SpecStrip)
    loop        \* the goroutine of the backup loop, its ticker and main (SpecLoop)

vars ==
    << cfg, pc, cancelled, repo, remote, api, failing, resources, sanitized, cycleErr,
       boot, cycle, ran, removed, status, pulled, prev, faults, sel, app, loop >>

(***************************************************************************)
(* Actions: cmd/main.go and Manager.BackupResources, one step each          *)
(***************************************************************************)

\* No function applied
NoApp == [op |-> ""]

\* The backup loop before its goroutine starts: no tick in ticker.C, no runBackup
\* executing or started, the context not cancelled, main before <-sigChan
NoLoop ==
    [pc |-> "initial", tick |-> 0, running |-> 0, cycles |-> 0, cancelled |-> FALSE,
     main |-> "waiting"]

\* The state of a process that has not started a cycle
NoCycle ==
    /\ api = EmptyApi
    /\ failing = {}
    /\ resources = <<>>
    /\ sanitized = <<>>
    /\ cycleErr = ""
    /\ cycle = 0
    /\ ran = <<>>
    /\ removed = {}
    /\ status = ""
    /\ pulled = FALSE
    /\ prev = [raw |-> <<>>, ok |-> FALSE, err |-> ""]
    /\ faults = 0

\* main up to git.NewManager, of a run with DumpOnly false: nothing is in the
\* working directory yet
Init ==
    /\ cfg \in Configs
    /\ pc = "boot"
    /\ cancelled = FALSE
    /\ repo = NoRepository(EmptyTree)
    /\ remote \in Remotes
    /\ boot = [done |-> FALSE, case |-> "", err |-> "", fetchErr |-> "-", cloneErr |-> "-"]
    /\ sel = <<>>
    /\ app = NoApp
    /\ loop = NoLoop
    /\ NoCycle

\* runBackup is entered: the bookkeeping of a new cycle
BeginCycle ==
    /\ cycle' = cycle + 1
    /\ ran' = <<>>
    /\ removed' = {}
    /\ status' = ""
    /\ pulled' = FALSE
    /\ cycleErr' = ""
    /\ failing' = {}
    /\ api' = EmptyApi
    /\ resources' = <<>>
    /\ sanitized' = <<>>

\* main, lines 392-400: git.NewManager, and log.Fatalf when it fails; then the
\* goroutine of the backup loop runs the initial backup (lines 414-421)
NewManager ==
    /\ pc = "boot"
    /\ \E env \in StartupEnvs :
          LET r == initRepository(repo, cfg.Git, workDirDefault, remote, env)
          IN  /\ boot' = [ done |-> TRUE, case |-> r.case, err |-> r.err,
                           fetchErr |-> r.fetchErr, cloneErr |-> r.cloneErr ]
              /\ repo' = r.repo
              /\ IF r.err = ""
                 THEN pc' = "collect" /\ BeginCycle
                 ELSE /\ pc' = "fatal"
                      /\ UNCHANGED << api, failing, resources, sanitized, cycleErr, cycle, ran,
                                      removed, status, pulled >>
    /\ UNCHANGED <<cfg, cancelled, remote, prev, faults, sel, app, loop>>

\* runBackup goes on to its next step
Continue(next) ==
    /\ pc' = next
    /\ UNCHANGED <<cycleErr, prev>>

\* runBackup returns: the loop logs the error, if any, and goes to its select.
\* The commit step of the cycle succeeded when the cycle went past it
Return(err) ==
    /\ cycleErr' = err
    /\ pc' = "select"
    /\ prev' = [ raw |-> resources,
                 ok |-> \E i \in DOMAIN ran' :
                           ran'[i] = "commit" /\ (i < Len(ran') \/ err = ""),
                 err |-> err ]

\* mutant of BackupStep: a cycle that found nothing to commit returns without a push
BackupStepNoPushWhenClean(err, msg, next) ==
    IF err # "" THEN Return(msg)
    ELSE IF next = "return" \/ (next = "push" /\ status' = "clean") THEN Return("")
    ELSE Continue(next)

\* mutant of BackupStep: the error of a step is ignored
BackupStepIgnoreError(err, msg, next) ==
    IF next = "return" THEN Return("") ELSE Continue(next)

\* BackupResources: `if err := step(); err != nil { return fmt.Errorf(msg, err) }`,
\* and `return nil` after the last step
BackupStep(err, msg, next) ==
    IF err # "" THEN Return(msg)
    ELSE IF next = "return" THEN Return("")
    ELSE Continue(next)

\* The locals of runBackup, which are lost when it returns
Locals == IF pc' = "select"
          THEN resources' = <<>> /\ sanitized' = <<>> /\ failing' = {}
          ELSE UNCHANGED <<resources, sanitized, failing>>

\* The outcomes the environment may give a call: TRUE when the call works, and
\* FALSE while the run has a failure left
Outcomes == IF faults < MaxFaults THEN BOOLEAN ELSE {TRUE}

\* The environment made a call fail, or did not
Fault(failed) == faults' = faults + (IF failed THEN 1 ELSE 0)

\* runBackup, lines 451-457: collector.CollectResources. A cancelled context fails
\* every List call. api: what the List calls that worked returned
Collect ==
    /\ pc = "collect"
    /\ \E a \in Apis, order \in TypeOrders,
          f \in IF cancelled THEN {DOMAIN resourceTypes}
                ELSE IF faults < MaxFaults THEN SUBSET ListedTypes ELSE {{}} :
          LET r == CollectResources(cfg.Kubernetes, a, f, order)
          IN  /\ api' = [t \in DOMAIN a |-> IF t \in f THEN <<>> ELSE a[t]]
              /\ failing' = f
              /\ Fault(f # {} /\ ~cancelled)
              /\ resources' = r.resources
              /\ ran' = Append(ran, "collect")
              /\ IF r.err # ""
                 THEN Return("failed to collect resources")
                 ELSE Continue("sanitize")
    /\ UNCHANGED <<cfg, cancelled, repo, remote, sanitized, boot, cycle, removed, status,
                   pulled, sel, app, loop>>

\* runBackup, lines 459-463: sanitizer.SanitizeResources
Sanitize ==
    /\ pc = "sanitize"
    /\ LET r == SanitizeResources(resources)
       IN  /\ ran' = Append(ran, "sanitize")
           /\ IF r.err # ""
              THEN /\ Return("failed to sanitize resources")
                   /\ Locals
              ELSE /\ Continue("pull")
                   /\ sanitized' = r.sanitized
                   /\ UNCHANGED <<resources, failing>>
    /\ api' = EmptyApi
    /\ UNCHANGED <<cfg, cancelled, repo, remote, boot, cycle, removed, status, pulled,
                   faults, sel, app, loop>>

\* What a step of BackupResources leaves alone
CycleFrame ==
    /\ Locals
    /\ UNCHANGED <<cfg, cancelled, api, boot, cycle, sel, app, loop>>

\* BackupResources, lines 190-193: pullLatestChanges
Pull ==
    /\ pc = "pull"
    /\ \E transportOk \in Outcomes :
          LET r == pullLatestChanges(repo, workDirDefault, remote, transportOk)
          IN  /\ repo' = r.repo
              /\ Fault(~transportOk)
              /\ pulled' = (r.repo.log # repo.log)
              /\ ran' = Append(ran, "pull")
              /\ BackupStep(r.err, "failed to pull latest changes", "cleanup")
    /\ UNCHANGED <<remote, removed, status>>
    /\ CycleFrame

\* BackupResources, lines 195-198: cleanupDeletedResources, that is CleanupOldBackups
Cleanup ==
    /\ pc = "cleanup"
    /\ \E failAt \in {""} \cup IF faults < MaxFaults
                               THEN staleFiles(repo.files, workDirDefault, sanitized)
                               ELSE {} :
          LET r == CleanupOldBackups(repo.files, workDirDefault, sanitized, failAt)
          IN  /\ repo' = [repo EXCEPT !.files = r.files]
              /\ Fault(failAt # "")
              /\ removed' = r.removed
              /\ ran' = Append(ran, "cleanup")
              /\ BackupStep(r.err, "failed to cleanup deleted resources", "write")
    /\ UNCHANGED <<remote, status, pulled>>
    /\ CycleFrame

\* BackupResources, lines 200-203: writeResources
Write ==
    /\ pc = "write"
    /\ \E failAt \in 0 .. (IF faults < MaxFaults THEN Len(sanitized) ELSE 0) :
          LET r == writeResources(repo.files, workDirDefault, sanitized, failAt)
          IN  /\ repo' = [repo EXCEPT !.files = r.files]
              /\ Fault(failAt # 0)
              /\ ran' = Append(ran, "write")
              /\ BackupStep(r.err, "failed to write resources", "add")
    /\ UNCHANGED <<remote, removed, status, pulled>>
    /\ CycleFrame

\* BackupResources, lines 205-208: addChanges
Add ==
    /\ pc = "add"
    /\ \E ok \in Outcomes :
          LET r == addChanges(repo, workDirDefault, ~ok)
          IN  /\ repo' = r.repo
              /\ Fault(~ok)
              /\ ran' = Append(ran, "add")
              /\ BackupStep(r.err, "failed to add changes", "commit")
    /\ UNCHANGED <<remote, removed, status, pulled>>
    /\ CycleFrame

\* BackupResources, lines 210-213: commitChanges. The first commit of an unborn
\* branch creates the branch
Commit ==
    /\ pc = "commit"
    /\ \E ok \in Outcomes :
          LET r == commitChanges(repo.files, workDirDefault, repo.index, repo.log, ~ok)
          IN  /\ repo' = [repo EXCEPT !.log = r.log,
                                      !.branches = IF r.committed THEN @ \cup {repo.head} ELSE @]
              /\ Fault(r.err # "")
              /\ status' = IF r.committed THEN "committed"
                           ELSE IF r.err = "" THEN "clean" ELSE "failed"
              /\ ran' = Append(ran, "commit")
              /\ BackupStep(r.err, "failed to commit changes", "push")
    /\ UNCHANGED <<remote, removed, pulled>>
    /\ CycleFrame

\* BackupResources, lines 215-220: pushChanges, and the return of the cycle
Push ==
    /\ pc = "push"
    /\ \E transportOk \in Outcomes :
          LET r == pushChanges(repo, remote, transportOk)
          IN  /\ remote' = r.remote
              /\ Fault(~transportOk)
              /\ repo' = IF r.err = "" THEN [repo EXCEPT !.fetched = repo.log] ELSE repo
              /\ ran' = Append(ran, "push")
              /\ BackupStep(r.err, "failed to push changes", "return")
    /\ UNCHANGED <<removed, status, pulled>>
    /\ CycleFrame

\* main, lines 424-433: the select of the backup loop takes a tick of the ticker
Tick ==
    /\ pc = "select"
    /\ cycle < MaxCycles
    /\ pc' = "collect"
    /\ BeginCycle
    /\ UNCHANGED <<cfg, cancelled, repo, remote, boot, prev, faults, sel, app, loop>>

\* main, lines 425-427: the select of the backup loop takes ctx.Done()
Stop ==
    /\ pc = "select"
    /\ cancelled
    /\ pc' = "stopped"
    /\ UNCHANGED << cfg, cancelled, repo, remote, api, failing, resources, sanitized, cycleErr,
                    boot, cycle, ran, removed, status, pulled, prev, faults, sel, app, loop >>

\* main, lines 436-439: a signal arrives and main cancels the context. Only the
\* List calls and the select of the loop look at the context, so a signal in the
\* middle of a cycle acts as one that comes when the cycle returns
Signal ==
    /\ pc \in {"collect", "select"}
    /\ ~cancelled
    /\ cancelled' = TRUE
    /\ UNCHANGED << cfg, pc, repo, remote, api, failing, resources, sanitized, cycleErr,
                    boot, cycle, ran, removed, status, pulled, prev, faults, sel, app, loop >>

\* Another writer pushes a commit to the branch of the remote repository
RemoteAdvance ==
    /\ pc \in {"pull", "push"}
    /\ faults < MaxFaults
    /\ remote.log # <<>>
    /\ remote' = [remote EXCEPT !.log = Append(@, ForeignTree(HeadTree(@)))]
    /\ faults' = faults + 1
    /\ UNCHANGED << cfg, pc, cancelled, repo, api, failing, resources, sanitized, cycleErr,
                    boot, cycle, ran, removed, status, pulled, prev, sel, app, loop >>

Next ==
    \/ NewManager
    \/ Collect
    \/ Sanitize
    \/ Pull
    \/ Cleanup
    \/ Write
    \/ Add
    \/ Commit
    \/ Push
    \/ Tick
    \/ Stop
    \/ Signal
    \/ RemoteAdvance

Spec == Init /\ [][Next]_vars

(***************************************************************************)
(* Properties of the backup cycle                                          *)
(***************************************************************************)

\* The regular files of the working tree whose name ends in .yaml and that lie
\* outside the directory .git
YamlFiles ==
    { path \in DOMAIN repo.files :
        HasSuffix(path, ".yaml") /\ ~HasPrefix(RelPath(workDirDefault, path), ".git/") }

\* C1 as stated: when a cycle has completed CleanupOldBackups and writeResources,
\* the .yaml files of the working tree outside .git/ are exactly the paths of the
\* cycle's sanitized records, and each path holds its record's bytes
C1_AsStated ==
    pc = "add" =>
        /\ YamlFiles = {resourcePath(workDirDefault, sanitized[i]) : i \in DOMAIN sanitized}
        /\ \A i \in DOMAIN sanitized :
              repo.files[resourcePath(workDirDefault, sanitized[i])] = sanitized[i].YAML

\* C2 as stated: a cycle whose commit step finds the working tree clean performs
\* no push and returns without error
C2_AsStated ==
    (pc = "select" /\ status = "clean") =>
        /\ \A i \in DOMAIN ran : ran[i] # "push"
        /\ cycleErr = ""

\* C3: when a cycle receives the same raw records, in any order, as the cycle
\* before it, which got past its commit step, and its pull did not move the
\* branch, its commit step creates no commit
C3_SameRecordsNoCommit ==
    [][ ( /\ pc = "commit"
          /\ cycle > 1
          /\ prev.ok
          /\ Range(prev.raw) = Range(resources)
          /\ ~pulled )
        => ( /\ repo'.log = repo.log
             /\ WorktreeTree(repo.files, workDirDefault) = HeadTree(repo.log)
             /\ status' # "committed" ) ]_vars

\* C3 happens: a second cycle got the two records of the first in the other order,
\* and its commit step found nothing to commit
C3_Witness ==
    /\ pc = "push"
    /\ cycle = 2
    /\ prev.ok
    /\ Len(resources) = 2
    /\ Range(prev.raw) = Range(resources)
    /\ prev.raw # resources
    /\ ~pulled
    /\ status = "clean"

\* The records of a sequence whose payload can be converted
Convertible(records) == SelectSeq(records, LAMBDA r : r.Object.convertible)

\* C4 as stated: SanitizeResources drops the records it cannot sanitize and returns
\* all the others, and the cycle goes on with them
C4_AsStated ==
    [][ pc = "sanitize"
        => ( /\ pc' = "pull"
             /\ Len(sanitized') = Len(Convertible(resources)) ) ]_vars

\* C5: the failure of the listing of one type does not abort the collection:
\* CollectResources returns the records of the types whose listing worked, and no
\* error, and the cycle goes on to sanitize them
C5_ListingFailureSkipped ==
    [][ (pc = "collect" /\ ran' # ran)
        => ( /\ pc' = "sanitize"
             /\ cycleErr' = ""
             /\ Range(resources') =
                   UNION { { ResourceOf(t, api'[t][i]) :
                               i \in { j \in DOMAIN api'[t] :
                                         collectItem(cfg.Kubernetes, t, api'[t][j]) } } :
                           t \in { u \in DOMAIN api' :
                                     shouldIncludeResource(cfg.Kubernetes, u) } } ) ]_vars

\* C5 happens: in a cycle in which a listing failed, the records of another type
\* were committed
C5_Witness ==
    /\ pc = "push"
    /\ failing # {}
    /\ ~cancelled
    /\ resources # <<>>
    /\ status = "committed"

\* The steps of BackupResources, in the order of the code
BackupSteps == <<"pull", "cleanup", "write", "add", "commit", "push">>

\* The steps of a cycle, in the order of the code
CycleSteps == <<"collect", "sanitize">> \o BackupSteps

\* The error BackupResources returns when a step fails
StepError(step) ==
    CASE step = "pull" -> "failed to pull latest changes"
      [] step = "cleanup" -> "failed to cleanup deleted resources"
      [] step = "write" -> "failed to write resources"
      [] step = "add" -> "failed to add changes"
      [] step = "commit" -> "failed to commit changes"
      [] step = "push" -> "failed to push changes"

\* C9: when a step of BackupResources fails, the cycle ends at that step with the
\* error of the step: no later step runs, no step runs twice, and the loop is back
\* at its select, where the next tick starts a new cycle
C9_AbortAtFailingStep ==
    [][ /\ (pc \in Range(BackupSteps) /\ ran' # ran)
           => ( /\ ran' = Append(ran, pc)
                /\ ran' = SubSeq(CycleSteps, 1, Len(ran'))
                /\ faults' > faults => (pc' = "select" /\ cycleErr' = StepError(pc))
                /\ cycleErr' # "" => (pc' = "select" /\ cycleErr' = StepError(pc))
                /\ pc' = "select" => (cycleErr' # "" \/ pc = "push") )
        /\ (pc = "select" /\ cycleErr # "" /\ cycle < MaxCycles)
           => ( /\ ENABLED Tick
                /\ pc' \in {"select", "collect", "stopped"}
                /\ pc' = "stopped" => cancelled ) ]_vars

\* C9 happens: the first cycle failed when it wrote the records, and the loop
\* has started the second cycle
C9_Witness ==
    /\ cycle = 2
    /\ pc = "sanitize"
    /\ prev.err = "failed to write resources"

\* NewManager found no repository in the working directory and the remote empty
EmptyStart == boot.done /\ Contains(boot.cloneErr, "remote repository is empty")

\* C10: with no repository in the working directory and an empty remote, NewManager
\* succeeds through PlainInit and CreateRemote: the branch has no commit, the fetch
\* and the pull of the empty remote count as success, and the first
\* CleanupOldBackups removes no file. Every other failure of the clone or of the
\* fetch makes NewManager fail
C10_EmptyRemoteStart ==
    /\ EmptyStart =>
          /\ boot.err = "" \/ boot.case \in {"init", "fetch"}
          /\ boot.case = "fetch" => ~Contains(boot.fetchErr, "remote repository is empty")
          /\ boot.err = "" =>
                /\ RepositoryExists(repo.files, workDirDefault)
                /\ repo.origin = cfg.Git.Repository
                /\ boot.case = "new-failed"
          /\ (boot.err = "" /\ cycle = 1 /\ pc \in {"collect", "sanitize", "pull"}) =>
                (repo.log = <<>> /\ repo.branches = {})
          /\ (cycle = 1 /\ faults = 0 /\ pc = "select") =>
                cycleErr # "failed to pull latest changes"
          /\ cycle = 1 => removed = {}
    /\ (boot.done /\ boot.cloneErr \notin {"", "-"} /\ ~EmptyStart) =>
          (boot.err = "failed to clone repository" /\ pc = "fatal")
    /\ ( /\ boot.done
         /\ boot.fetchErr \notin {"", "-", "already up-to-date"}
         /\ ~Contains(boot.fetchErr, "remote repository is empty") ) =>
          (boot.err = "failed to fetch" /\ pc = "fatal")

\* C10 happens: started on an empty remote, the first cycle has pulled and has
\* run CleanupOldBackups, which removed nothing, on a branch without commit
C10_Witness ==
    /\ EmptyStart
    /\ boot.err = ""
    /\ cycle = 1
    /\ pc = "write"
    /\ sanitized # <<>>
    /\ removed = {}
    /\ repo.log = <<>>

\* The snapshot files of a tree: the .yaml files under namespaces/ and
\* cluster-scoped/, where writeResources puts the records
SnapshotPaths(tree) ==
    { rel \in DOMAIN tree :
        /\ HasSuffix(rel, ".yaml")
        /\ HasPrefix(rel, "namespaces/") \/ HasPrefix(rel, "cluster-scoped/") }

\* C11: in a cycle with no sanitized record, CleanupOldBackups removes every
\* snapshot file of the working tree; addChanges stages the tree without them;
\* commitChanges creates one commit of that tree when it differs from the last
\* commit, and no commit only when it does not; pushChanges sends the commit to a
\* remote that has not moved since the pull (each step unless the environment
\* makes it fail)
C11_EmptyClusterCommitted ==
    [][ (sanitized = <<>> /\ ran' # ran /\ faults' = faults)
        => ( /\ pc = "cleanup" =>
                   /\ SnapshotPaths(WorktreeTree(repo'.files, workDirDefault)) = {}
                   /\ SnapshotPaths(WorktreeTree(repo.files, workDirDefault))
                         \subseteq {RelPath(workDirDefault, path) : path \in removed'}
             /\ pc = "add" =>
                   /\ repo'.index = WorktreeTree(repo.files, workDirDefault)
                   /\ SnapshotPaths(repo'.index) = {}
             /\ pc = "commit" =>
                   /\ repo.index # HeadTree(repo.log) => repo'.log = Append(repo.log, repo.index)
                   /\ repo.index = HeadTree(repo.log) => repo'.log = repo.log
                   /\ SnapshotPaths(HeadTree(repo'.log)) = {}
             /\ (pc = "push" /\ status = "committed" /\ IsPrefix(remote.log, repo.log)) =>
                   (remote'.log = repo.log /\ cycleErr' = "") ) ]_vars

\* C11 happens: the first cycle committed snapshot files, the second got no
\* record, and its commit without any snapshot file has reached the remote
C11_Witness ==
    /\ pc = "select"
    /\ cycle = 2
    /\ prev.raw = <<>>
    /\ status = "committed"
    /\ cycleErr = ""
    /\ Len(repo.log) >= 2
    /\ SnapshotPaths(repo.log[Len(repo.log) - 1]) # {}
    /\ SnapshotPaths(HeadTree(repo.log)) = {}
    /\ remote.log = repo.log

(***************************************************************************)
(* The selection functions of the collector, applied to drawn inputs       *)
(***************************************************************************)

\* The lists of at most two names of S
SelLists(S) == {<<>>} \cup {<<a>> : a \in S} \cup {<<a, b>> : a \in S, b \in S}

\* Names of resource types, one of them unknown to the collector
SelTypes == {"services", "namespaces", "persistentvolumes", "pods"}

\* Names of namespaces
SelNamespaces == {"prod", "dev", ""}

\* The selection lists of resource types
SelResourceConfigs ==
    { [DefaultKubernetes EXCEPT !.IncludeResources = inc, !.ExcludeResources = exc] :
        inc \in SelLists(SelTypes \ {"persistentvolumes"}),
        exc \in SelLists(SelTypes \ {"persistentvolumes"}) }

\* The selection lists of namespaces
SelNamespaceConfigs ==
    { [DefaultKubernetes EXCEPT !.IncludeNamespaces = inc, !.ExcludeNamespaces = exc] :
        inc \in SelLists(SelNamespaces \ {""}), exc \in SelLists(SelNamespaces \ {""}) }

\* Listed items of the types whose records have no namespace
SelClusterItems ==
    [ namespaces |-> { [namespace |-> "", name |-> "prod", object |-> Object(NamespaceDoc)],
                       [namespace |-> "", name |-> "dev", object |-> Object(NamespaceDoc)] },
      persistentvolumes |-> { [namespace |-> "", name |-> "pv1", object |-> Object(VolumeDoc)] },
      storageclasses |-> { [namespace |-> "", name |-> "prod", object |-> Object(VolumeDoc)] },
      clusterroles |-> { [namespace |-> "", name |-> "admin", object |-> Object(VolumeDoc)],
                         [namespace |-> "", name |-> "prod", object |-> Object(VolumeDoc)] },
      clusterrolebindings |-> { [namespace |-> "", name |-> "system:node",
                                 object |-> Object(VolumeDoc)],
                                [namespace |-> "", name |-> "dev", object |-> Object(VolumeDoc)] } ]

\* The variables of the backup cycle
cycleVars ==
    << cfg, pc, cancelled, repo, remote, api, failing, resources, sanitized, cycleErr,
       boot, cycle, ran, removed, status, pulled, prev, faults >>

\* No function applied yet
NoSel == [op |-> "", k8s |-> DefaultKubernetes, type |-> "", name |-> "", records |-> <<>>,
          out |-> FALSE, logic |-> FALSE]

InitSel ==
    /\ cfg = [Kubernetes |-> DefaultKubernetes, Git |-> DefaultGit]
    /\ pc = "selection"
    /\ cancelled = FALSE
    /\ repo = NoRepository(EmptyTree)
    /\ remote = [branch |-> "", log |-> <<>>]
    /\ boot = [done |-> FALSE, case |-> "", err |-> "", fetchErr |-> "-", cloneErr |-> "-"]
    /\ NoCycle
    /\ sel = NoSel
    /\ app = NoApp
    /\ loop = NoLoop

\* shouldIncludeResource is applied
ApplyResource ==
    /\ \E k8s \in SelResourceConfigs, resourceType \in SelTypes :
          sel' = [NoSel EXCEPT !.op = "resource", !.k8s = k8s, !.type = resourceType,
                               !.out = shouldIncludeResource(k8s, resourceType)]
    /\ UNCHANGED <<cycleVars, app, loop>>

\* shouldIncludeNamespace is applied, and the reference logic of the test
ApplyNamespace ==
    /\ \E k8s \in SelNamespaceConfigs, namespace \in SelNamespaces :
          sel' = [NoSel EXCEPT !.op = "namespace", !.k8s = k8s, !.name = namespace,
                               !.out = shouldIncludeNamespace(k8s, namespace),
                               !.logic = shouldIncludeNamespaceLogic(
                                             namespace, k8s.IncludeNamespaces,
                                             k8s.ExcludeNamespaces)]
    /\ UNCHANGED <<cycleVars, app, loop>>

\* A collect function of a type without namespace is applied to a listing of one item
ApplyCollect ==
    /\ \E k8s \in SelNamespaceConfigs, resourceType \in DOMAIN SelClusterItems :
          \E item \in SelClusterItems[resourceType] :
             LET records == collectKind(k8s, resourceType, <<item>>)
             IN  sel' = [NoSel EXCEPT !.op = "collect", !.k8s = k8s, !.type = resourceType,
                                      !.name = item.name, !.records = records,
                                      !.out = (records # <<>>)]
    /\ UNCHANGED <<cycleVars, app, loop>>

NextSel ==
    \/ ApplyResource
    \/ ApplyNamespace
    \/ ApplyCollect

SpecSel == InitSel /\ [][NextSel]_vars

\* C6: shouldIncludeResource(k) is true exactly when k is not in ExcludeResources
\* and (IncludeResources is empty or k is in IncludeResources); a type in the
\* exclude list is rejected whatever the include list holds
C6_ResourceSelection ==
    sel.op = "resource" =>
        /\ sel.out = ( /\ ~InList(sel.k8s.ExcludeResources, sel.type)
                       /\ \/ sel.k8s.IncludeResources = <<>>
                          \/ InList(sel.k8s.IncludeResources, sel.type) )
        /\ InList(sel.k8s.ExcludeResources, sel.type) => ~sel.out

\* C6 happens: a type that is in both lists was rejected
C6_Witness ==
    /\ sel.op = "resource"
    /\ InList(sel.k8s.ExcludeResources, sel.type)
    /\ InList(sel.k8s.IncludeResources, sel.type)
    /\ ~sel.out

\* C7: shouldIncludeNamespace(ns) is true exactly when ns is not in
\* ExcludeNamespaces and (IncludeNamespaces is empty or ns is in
\* IncludeNamespaces), and it agrees with shouldIncludeNamespaceLogic of the test
C7_NamespaceSelection ==
    sel.op = "namespace" =>
        /\ sel.out = ( /\ ~InList(sel.k8s.ExcludeNamespaces, sel.name)
                       /\ \/ sel.k8s.IncludeNamespaces = <<>>
                          \/ InList(sel.k8s.IncludeNamespaces, sel.name) )
        /\ sel.out = sel.logic

\* C7 happens: with an empty include list a namespace that is not excluded was
\* accepted
C7_Witness ==
    /\ sel.op = "namespace"
    /\ sel.k8s.IncludeNamespaces = <<>>
    /\ sel.k8s.ExcludeNamespaces # <<>>
    /\ ~InList(sel.k8s.ExcludeNamespaces, sel.name)
    /\ sel.out

\* C8 as stated: a listed item of a type whose records have no namespace, the
\* Namespace type among them, is collected whatever IncludeNamespaces and
\* ExcludeNamespaces hold (the tests on the item's own name aside)
C8_AsStated ==
    sel.op = "collect" =>
        sel.out = ~skipItem(sel.type, [name |-> sel.name])

\* C8, amended: a listed item of a type whose records have no namespace, other
\* than the Namespace type, is collected whatever IncludeNamespaces and
\* ExcludeNamespaces hold; a Namespace item is collected exactly when
\* shouldIncludeNamespace accepts its name; the record has an empty Namespace
C8_ClusterScoped ==
    sel.op = "collect" =>
        /\ sel.type # "namespaces" => sel.out = ~skipItem(sel.type, [name |-> sel.name])
        /\ sel.type = "namespaces" => sel.out = shouldIncludeNamespace(sel.k8s, sel.name)
        /\ \A i \in DOMAIN sel.records : sel.records[i].Namespace = ""

\* C8 happens: a Namespace item whose name is in the exclude list was not collected
C8_Witness ==
    /\ sel.op = "collect"
    /\ sel.type = "namespaces"
    /\ InList(sel.k8s.ExcludeNamespaces, sel.name)
    /\ ~sel.out

(***************************************************************************)
(* The path of a record, computed for drawn records                        *)
(***************************************************************************)

\* Kinds the collector stamps on records
PathKinds == {"Service", "ConfigMap", "Namespace", "PersistentVolume", "PersistentVolumeClaim"}

\* Namespaces of records ("" for a record without namespace)
PathNamespaces == {"", "prod", "web"}

\* Names of objects
PathNames == {"web", "web.v1", "system:node"}

\* Working directories of the dump-only mode (WORK_DIR), clean absolute paths
PathWorkDirs == {workDirDefault, "/backup"}

\* Sanitized records with the payload `yaml`
PathRecords(yaml) ==
    { [APIVersion |-> "v1", Kind |-> k, Namespace |-> ns, Name |-> n, YAML |-> yaml] :
        k \in PathKinds, ns \in PathNamespaces, n \in PathNames }

\* The identity of a record
Identity(resource) == <<resource.Kind, resource.Namespace, resource.Name>>

InitPath ==
    /\ cfg = [Kubernetes |-> DefaultKubernetes, Git |-> DefaultGit]
    /\ pc = "path"
    /\ cancelled = FALSE
    /\ repo = NoRepository(EmptyTree)
    /\ remote = [branch |-> "", log |-> <<>>]
    /\ boot = [done |-> FALSE, case |-> "", err |-> "", fetchErr |-> "-", cloneErr |-> "-"]
    /\ NoCycle
    /\ sel = NoSel
    /\ app = NoApp
    /\ loop = NoLoop

\* The three computations of the path of one record: CleanupOldBackups,
\* writeResources (in the working directory of the Manager), dumpResourcesLocally
\* (in the working directory of the configuration)
ApplyPath ==
    /\ app.op = ""
    /\ \E resource \in PathRecords("a"), workDir \in PathWorkDirs :
          app' = [ op |-> "path", resource |-> resource, workDir |-> workDir,
                   cleanup |-> resourceRelPath(resource),
                   write |-> resourcePath(workDirDefault, resource),
                   dump |-> dumpResourcePath(workDir, resource) ]
    /\ UNCHANGED <<cycleVars, sel, loop>>

\* writeResources on two records, into an empty working directory
ApplyWrite ==
    /\ app.op = ""
    /\ \E a \in PathRecords("a"), b \in PathRecords("b") :
          app' = [ op |-> "write", a |-> a, b |-> b,
                   files |-> writeResources(EmptyTree, workDirDefault, <<a, b>>, 0).files ]
    /\ UNCHANGED <<cycleVars, sel, loop>>

NextPath ==
    \/ ApplyPath
    \/ ApplyWrite

SpecPath == InitPath /\ [][NextPath]_vars

\* C12: the path of a record is cluster-scoped/<lower(kind)>/<name>.yaml when its
\* Namespace is empty and namespaces/<namespace>/<lower(kind)>/<name>.yaml
\* otherwise, and CleanupOldBackups, writeResources and dumpResourcesLocally
\* compute the same path, relative to the working directory
C12_SamePathEverywhere ==
    app.op = "path" =>
        LET r == app.resource
        IN  /\ app.cleanup =
                  IF r.Namespace = ""
                  THEN "cluster-scoped/" \o ToLower(r.Kind) \o "/" \o r.Name \o ".yaml"
                  ELSE "namespaces/" \o r.Namespace \o "/" \o ToLower(r.Kind) \o "/"
                       \o r.Name \o ".yaml"
            /\ RelPath(workDirDefault, app.write) = app.cleanup
            /\ RelPath(app.workDir, app.dump) = app.cleanup

\* C12 happens: the paths of a namespaced record were computed, the dump in
\* another working directory than the one of the Manager
C12_Witness ==
    /\ app.op = "path"
    /\ app.resource.Namespace # ""
    /\ app.resource.Kind = "PersistentVolumeClaim"
    /\ app.workDir # workDirDefault
    /\ app.dump = "/backup/namespaces/prod/persistentvolumeclaim/web.v1.yaml"

\* C13: two records with distinct (kind, namespace, name) are written to distinct
\* paths: writeResources leaves two files, each with the bytes of its record
C13_PathInjective ==
    (app.op = "write" /\ Identity(app.a) # Identity(app.b)) =>
        /\ resourcePath(workDirDefault, app.a) # resourcePath(workDirDefault, app.b)
        /\ DOMAIN app.files = { resourcePath(workDirDefault, app.a),
                                resourcePath(workDirDefault, app.b) }
        /\ Cardinality(DOMAIN app.files) = 2
        /\ app.files[resourcePath(workDirDefault, app.a)] = "a"
        /\ app.files[resourcePath(workDirDefault, app.b)] = "b"

\* C13 happens: two records of the same name and namespace that differ in their
\* kind only, one kind a prefix of the other, were written
C13_Witness ==
    /\ app.op = "write"
    /\ app.a.Kind = "PersistentVolume"
    /\ app.b.Kind = "PersistentVolumeClaim"
    /\ app.a.Namespace = app.b.Namespace
    /\ app.a.Name = app.b.Name
    /\ Cardinality(DOMAIN app.files) = 2

(***************************************************************************)
(* The sanitizer, applied to drawn documents                               *)
(***************************************************************************)

\* A key of a document that may be absent
Opt(present, key, value) == IF present THEN key :> value ELSE EmptyMap

\* No value under a key
Absent == [t |-> "absent", v |-> ""]

\* Values of `metadata`
StripMetadata ==
    { Absent,
      Str("x"),
      Map(("name" :> Str("web")) @@ ("namespace" :> Str("prod"))),
      Map(("name" :> Str("web")) @@ ("uid" :> Str("u")) @@ ("selfLink" :> Str("/l"))
          @@ ("resourceVersion" :> Str("7")) @@ ("generation" :> Str("2"))
          @@ ("creationTimestamp" :> Str("t0")) @@ ("deletionTimestamp" :> Str("t1"))
          @@ ("deletionGracePeriodSeconds" :> Str("30"))
          @@ ("managedFields" :> List(<<Map("manager" :> Str("kubectl"))>>))
          @@ ("annotations" :> Map(
                "kubectl.kubernetes.io/last-applied-configuration" :> Str("{}")))
          @@ ("labels" :> Map("pod-template-hash" :> Str("abc")))),
      Map(("name" :> Str("web")) @@ ("namespace" :> Str("prod")) @@ ("uid" :> Str("u"))
          @@ ("annotations" :> Map(
                ("kubectl.kubernetes.io/last-applied-configuration" :> Str("{}"))
                @@ ("deployment.kubernetes.io/revision" :> Str("3"))
                @@ ("custom.io/annotation" :> Str("keep"))
                @@ ("k" :> Str("v"))))
          @@ ("labels" :> Map(("pod-template-hash" :> Str("abc")) @@ ("app" :> Str("a"))))),
      Map(("name" :> Str("web")) @@ ("annotations" :> Map(EmptyMap))
          @@ ("labels" :> Str("x"))) }

\* Values of `spec`
StripSpecs ==
    { Absent,
      Str("x"),
      Map(("clusterIP" :> Str("10.0.0.1")) @@ ("clusterIPs" :> List(<<Str("10.0.0.1")>>))
          @@ ("type" :> Str("NodePort"))
          @@ ("ports" :> List(<< Map(("port" :> Str("80")) @@ ("nodePort" :> Str("30080"))
                                     @@ ("name" :> Str("http"))),
                                 Map("port" :> Str("443")),
                                 Str("raw") >>))),
      Map(("clusterIP" :> Str("None")) @@ ("ports" :> Str("x"))),
      Map(("volumeName" :> Str("pv1")) @@ ("volumeMode" :> Str("Filesystem"))
          @@ ("storageClassName" :> Str("fast"))),
      Map(("claimRef" :> Map("name" :> Str("data"))) @@ ("capacity" :> Str("1Gi"))) }

\* The kinds of the records whose spec the sanitizer treats, and one more
StripKinds == {"Service", "PersistentVolumeClaim", "PersistentVolume", "ConfigMap"}

\* The document with the given kind ("" for none), metadata, spec and status
StripDoc(kind, metadata, spec, hasStatus) ==
    Opt(kind # "", "kind", Str(kind))
    @@ Opt(metadata # Absent, "metadata", metadata)
    @@ Opt(spec # Absent, "spec", spec)
    @@ Opt(hasStatus, "status", Map("phase" :> Str("Active")))
    @@ ("data" :> Map("key" :> Str("value")))

\* The payloads of a record of a kind: a typed object of client-go carries its
\* kind when its TypeMeta is set (as in sanitizer_test.go) and none when it comes
\* from a List call, which leaves the TypeMeta of the items empty
StripDocs(kind) ==
    { StripDoc(k, metadata, spec, hasStatus) :
        k \in {"", kind}, metadata \in StripMetadata, spec \in StripSpecs,
        hasStatus \in BOOLEAN }

\* Strip paths with a bracketed key as last segment: the field and the key
StripFields == {<<"metadata", "annotations">>, <<"metadata", "labels">>}

StripKeys ==
    {"k", "app", "custom.io/annotation", "kubectl.kubernetes.io/last-applied-configuration"}

\* Strip paths without bracket
StripPlainPaths ==
    { "status", "metadata.uid", "metadata.name.first", "spec.clusterIP", "spec.nosuch",
      "nosuch.field", "nosuch.data", "data.key", "data.key.deeper", "nosuch" }

\* The path a.b[key]
BracketPath(field, key) == JoinStrings(field, ".") \o "[" \o key \o "]"

InitStrip ==
    /\ cfg = [Kubernetes |-> DefaultKubernetes, Git |-> DefaultGit]
    /\ pc = "strip"
    /\ cancelled = FALSE
    /\ repo = NoRepository(EmptyTree)
    /\ remote = [branch |-> "", log |-> <<>>]
    /\ boot = [done |-> FALSE, case |-> "", err |-> "", fetchErr |-> "-", cloneErr |-> "-"]
    /\ NoCycle
    /\ sel = NoSel
    /\ app = NoApp
    /\ loop = NoLoop

\* sanitizeResource on a record: the document after the four passes and the
\* result of the call
ApplySanitize ==
    /\ app.op = ""
    /\ \E kind \in StripKinds :
          \E doc \in StripDocs(kind) :
             LET resource == [ APIVersion |-> "v1", Kind |-> kind, Namespace |-> "prod",
                               Name |-> "web", Object |-> Object(doc) ]
                 out == applySanitizationRules(doc)
             IN  app' = [ op |-> "sanitize", resource |-> resource, doc |-> doc,
                          out |-> out,
                          result |-> sanitizeResource(resource) ]
    /\ UNCHANGED <<cycleVars, sel, loop>>

\* The four passes on a document that they produced
ApplyAgain ==
    /\ app.op = "sanitize"
    /\ app' = [ op |-> "again", first |-> app.doc, doc |-> app.out,
                out |-> applySanitizationRules(app.out) ]
    /\ UNCHANGED <<cycleVars, sel, loop>>

\* sanitizeMetadata on a document
ApplyMetadata ==
    /\ app.op = ""
    /\ \E kind \in StripKinds :
          \E doc \in StripDocs(kind) :
             app' = [op |-> "metadata", doc |-> doc, out |-> sanitizeMetadata(doc)]
    /\ UNCHANGED <<cycleVars, sel, loop>>

\* removeFieldByPath on a document, with a path a.b[key] or a path without bracket
ApplyStrip ==
    /\ app.op = ""
    /\ \E doc \in StripDocs("Service") :
          \/ \E field \in StripFields, key \in StripKeys :
                app' = [ op |-> "strip", doc |-> doc, path |-> BracketPath(field, key),
                         field |-> field, key |-> key,
                         out |-> removeFieldByPath(doc, BracketPath(field, key)) ]
          \/ \E path \in StripPlainPaths :
                app' = [ op |-> "strip", doc |-> doc, path |-> path,
                         field |-> <<>>, key |-> "",
                         out |-> removeFieldByPath(doc, path) ]
    /\ UNCHANGED <<cycleVars, sel, loop>>

NextStrip ==
    \/ ApplySanitize
    \/ ApplyAgain
    \/ ApplyMetadata
    \/ ApplyStrip

SpecStrip == InitStrip /\ [][NextStrip]_vars

\* The map under a key of a map, or the empty map when the key holds no map
MapAt(m, key) == IF key \in DOMAIN m /\ m[key].t = "map" THEN m[key].v ELSE EmptyMap

\* The list under a key of a map, or the empty list when the key holds no list
ListAt(m, key) == IF key \in DOMAIN m /\ m[key].t = "list" THEN m[key].v ELSE <<>>

\* C14: the sanitized document of a record of kind Service has no spec.clusterIP
\* and no spec.clusterIPs, and no entry of spec.ports has a nodePort; every other
\* field of each entry of spec.ports is as it was
C14_ServiceFieldsStripped ==
    (app.op = "sanitize" /\ app.resource.Kind = "Service") =>
        LET before == ListAt(MapAt(app.doc, "spec"), "ports")
            after == ListAt(MapAt(app.out, "spec"), "ports")
        IN  /\ "clusterIP" \notin DOMAIN MapAt(app.out, "spec")
            /\ "clusterIPs" \notin DOMAIN MapAt(app.out, "spec")
            /\ Len(after) = Len(before)
            /\ \A i \in DOMAIN before :
                  IF before[i].t = "map"
                  THEN after[i] = Map(Delete(before[i].v, "nodePort"))
                  ELSE after[i] = before[i]

\* C14 happens: a Service as a List call returns it, without kind in its
\* payload, lost its clusterIP and the nodePort of a port, and kept the port
C14_Witness ==
    /\ app.op = "sanitize"
    /\ app.resource.Kind = "Service"
    /\ "kind" \notin DOMAIN app.doc
    /\ "clusterIP" \in DOMAIN MapAt(app.doc, "spec")
    /\ Len(ListAt(MapAt(app.doc, "spec"), "ports")) = 3
    /\ ListAt(MapAt(app.out, "spec"), "ports")[1]
          = Map(("port" :> Str("80")) @@ ("name" :> Str("http")))

\* C15 as stated: the sanitized document of a record of kind PersistentVolumeClaim
\* has no spec.volumeName and no spec.volumeMode, and the one of a record of kind
\* PersistentVolume has no spec.claimRef, whether the payload carries a kind or not
C15_AsStated ==
    app.op = "sanitize" =>
        /\ app.resource.Kind = "PersistentVolumeClaim" =>
              /\ "volumeName" \notin DOMAIN MapAt(app.out, "spec")
              /\ "volumeMode" \notin DOMAIN MapAt(app.out, "spec")
        /\ app.resource.Kind = "PersistentVolume" =>
              "claimRef" \notin DOMAIN MapAt(app.out, "spec")

\* The entries of a container (annotations, labels) of the metadata map after
\* sanitization are those it had before, less the removed keys; a container that
\* is no map is as it was, and a container is present only if it was before
EntriesKept(before, after, container, removedKeys) ==
    IF container \in DOMAIN before /\ before[container].t = "map"
    THEN /\ MapAt(after, container) = DeleteAll(before[container].v, removedKeys)
         /\ container \in DOMAIN after => after[container].t = "map"
    ELSE /\ container \in DOMAIN after <=> container \in DOMAIN before
         /\ container \in DOMAIN before => after[container] = before[container]

\* C16: after sanitizeMetadata the metadata map has none of the eight removed
\* fields, its annotations have neither last-applied-configuration nor revision,
\* its labels have no pod-template-hash; every other key of the metadata map,
\* every other annotation and every other label has the value it had, and
\* everything outside metadata is as it was (annotations and labels are compared
\* entry by entry)
C16_MetadataScrubbed ==
    app.op = "metadata" =>
        /\ DOMAIN app.out = DOMAIN app.doc
        /\ \A key \in DOMAIN app.doc \ {"metadata"} : app.out[key] = app.doc[key]
        /\ IF "metadata" \notin DOMAIN app.doc \/ app.doc["metadata"].t # "map"
           THEN app.out = app.doc
           ELSE LET before == app.doc["metadata"].v
                    after == MapAt(app.out, "metadata")
                IN  /\ app.out["metadata"].t = "map"
                    /\ DOMAIN after \cap Range(fieldsToRemove) = {}
                    /\ DOMAIN after \subseteq DOMAIN before
                    /\ \A key \in DOMAIN before \
                                     (Range(fieldsToRemove) \cup {"annotations", "labels"}) :
                          key \in DOMAIN after /\ after[key] = before[key]
                    /\ DOMAIN MapAt(after, "annotations") \cap
                          { "kubectl.kubernetes.io/last-applied-configuration",
                            "deployment.kubernetes.io/revision" } = {}
                    /\ "pod-template-hash" \notin DOMAIN MapAt(after, "labels")
                    /\ EntriesKept(before, after, "annotations",
                                   << "kubectl.kubernetes.io/last-applied-configuration",
                                      "deployment.kubernetes.io/revision" >>)
                    /\ EntriesKept(before, after, "labels", <<"pod-template-hash">>)

\* C16 happens: a document with a uid, the two ephemeral annotations beside a
\* custom one, and pod-template-hash beside the app label was sanitized
C16_Witness ==
    /\ app.op = "metadata"
    /\ "metadata" \in DOMAIN app.doc
    /\ "uid" \in DOMAIN MapAt(app.doc, "metadata")
    /\ { "kubectl.kubernetes.io/last-applied-configuration",
         "deployment.kubernetes.io/revision", "custom.io/annotation" }
          \subseteq DOMAIN MapAt(MapAt(app.doc, "metadata"), "annotations")
    /\ DOMAIN MapAt(MapAt(app.doc, "metadata"), "labels") = {"pod-template-hash", "app"}
    /\ DOMAIN MapAt(MapAt(app.out, "metadata"), "annotations") = {"custom.io/annotation", "k"}
    /\ DOMAIN MapAt(MapAt(app.out, "metadata"), "labels") = {"app"}

\* The document with `key` removed from the map at a.b, where field = <<a, b>>;
\* the document itself where there is no map at a.b
WithoutKey(doc, field, key) ==
    IF /\ field[1] \in DOMAIN doc
       /\ doc[field[1]].t = "map"
       /\ field[2] \in DOMAIN doc[field[1]].v
       /\ doc[field[1]].v[field[2]].t = "map"
    THEN [doc EXCEPT ![field[1]] =
             Map([@.v EXCEPT ![field[2]] = Map(Delete(@.v, key))])]
    ELSE doc

\* C17 as stated: removeFieldByPath with the path a.b[key] removes exactly `key`
\* from the map at a.b, also for a key with dots or slashes and also when the
\* bracketed segment is the last one of the path
C17_AsStated ==
    (app.op = "strip" /\ app.field # <<>>) =>
        app.out = WithoutKey(app.doc, app.field, app.key)

RECURSIVE Resolves(_, _)
\* Does the dot-separated path lead to a field of the document
Resolves(m, parts) ==
    /\ parts[1] \in DOMAIN m
    /\ Len(parts) > 1 => /\ m[parts[1]].t = "map"
                         /\ Resolves(m[parts[1]].v, Tail(parts))

\* C18: the four passes applied to a document that they produced leave it as it
\* is, and removeFieldByPath with a path that leads to no field of the document
\* leaves the document as it is
C18_Idempotent ==
    /\ app.op = "again" => app.out = app.doc
    /\ (app.op = "strip" /\ app.field = <<>> /\ ~Resolves(app.doc, Split(app.path, "."))) =>
          app.out = app.doc

\* C18 happens: the four passes changed a document and were applied to their output
C18_Witness ==
    /\ app.op = "again"
    /\ app.first # app.doc
    /\ "uid" \in DOMAIN MapAt(app.first, "metadata")
    /\ "clusterIP" \in DOMAIN MapAt(app.first, "spec")
    /\ "status" \in DOMAIN app.first

(***************************************************************************)
(* cmd/main.go: the goroutine of the backup loop, its ticker, and main     *)
(***************************************************************************)

InitLoop ==
    /\ cfg = [Kubernetes |-> DefaultKubernetes, Git |-> DefaultGit]
    /\ pc = "loop"
    /\ cancelled = FALSE
    /\ repo = NoRepository(EmptyTree)
    /\ remote = [branch |-> "", log |-> <<>>]
    /\ boot = [done |-> FALSE, case |-> "", err |-> "", fetchErr |-> "-", cloneErr |-> "-"]
    /\ NoCycle
    /\ sel = NoSel
    /\ app = NoApp
    /\ loop = NoLoop

\* The process runs until main returns
Alive == loop.main # "exited"

\* runBackup is called: one more runBackup executes
EnterRunBackup(l) ==
    [l EXCEPT !.pc = "collect", !.running = @ + 1, !.cycles = @ + 1]

\* mutant of SelectReady: a tick is taken wherever the goroutine stands
SelectReadyAnywhere(l) == l.pc # "stopped"

\* The goroutine stands at the select of the loop, which it reaches when the
\* call of runBackup before it has returned
SelectReady(l) == l.pc = "select"

\* main, lines 418-421: the initial backup
LoopInitialBackup ==
    /\ Alive
    /\ loop.pc = "initial"
    /\ loop' = EnterRunBackup(loop)
    /\ UNCHANGED <<cycleVars, sel, app>>

\* runBackup, one step: the step fails and runBackup returns its error, or it
\* succeeds and the next step follows; after the last step runBackup returns nil.
\* CollectResources returns no error
RunBackupStep ==
    /\ Alive
    /\ \E i \in DOMAIN CycleSteps :
          /\ loop.pc = CycleSteps[i]
          /\ \E failed \in BOOLEAN :
                IF (failed /\ i > 1) \/ i = Len(CycleSteps)
                THEN loop' = [loop EXCEPT !.pc = "select", !.running = @ - 1]
                ELSE loop' = [loop EXCEPT !.pc = CycleSteps[i + 1]]
    /\ UNCHANGED <<cycleVars, sel, app>>

\* time.NewTicker: the ticker sends on ticker.C, a channel of capacity one; a tick
\* that finds the channel full is dropped
TickerFires ==
    /\ Alive
    /\ loop.pc \notin {"stopped"}
    /\ loop.tick = 0
    /\ loop' = [loop EXCEPT !.tick = 1]
    /\ UNCHANGED <<cycleVars, sel, app>>

\* main, lines 428-431: the select receives from ticker.C and calls runBackup
LoopTick ==
    /\ Alive
    /\ SelectReady(loop)
    /\ loop.tick = 1
    /\ loop.cycles < MaxCycles
    /\ loop' = [EnterRunBackup(loop) EXCEPT !.tick = 0]
    /\ UNCHANGED <<cycleVars, sel, app>>

\* main, lines 425-427: the select receives from ctx.Done() and the goroutine
\* returns; the deferred ticker.Stop() runs
LoopStop ==
    /\ Alive
    /\ loop.pc = "select"
    /\ loop.cancelled
    /\ loop' = [loop EXCEPT !.pc = "stopped"]
    /\ UNCHANGED <<cycleVars, sel, app>>

\* main, lines 436-438: a signal arrives on sigChan and main cancels the context
MainSignal ==
    /\ loop.main = "waiting"
    /\ loop' = [loop EXCEPT !.cancelled = TRUE, !.main = "sleeping"]
    /\ UNCHANGED <<cycleVars, sel, app>>

\* main, lines 441-443: the sleep is over and main returns; the process ends
MainExit ==
    /\ loop.main = "sleeping"
    /\ loop' = [loop EXCEPT !.main = "exited"]
    /\ UNCHANGED <<cycleVars, sel, app>>

NextLoop ==
    \/ LoopInitialBackup
    \/ RunBackupStep
    \/ TickerFires
    \/ LoopTick
    \/ LoopStop
    \/ MainSignal
    \/ MainExit

SpecLoop == InitLoop /\ [][NextLoop]_vars

\* C19: at most one runBackup executes at any moment; a tick that fires while a
\* runBackup executes starts no cycle; a cycle starts only when no runBackup
\* executes
C19_NoOverlap ==
    [][ /\ loop'.running <= 1
        /\ (loop.running = 1 /\ loop'.tick > loop.tick) =>
              (loop'.running = 1 /\ loop'.cycles = loop.cycles /\ loop'.pc = loop.pc)
        /\ loop'.cycles > loop.cycles => (loop.running = 0 /\ loop'.running = 1) ]_vars

\* C19 happens: the ticker fired while the second cycle writes the working tree
C19_Witness ==
    /\ loop.running = 1
    /\ loop.cycles = 2
    /\ loop.pc = "write"
    /\ loop.tick = 1

\* C20 as stated: once the context is cancelled, the goroutine at the select of
\* its loop begins no runBackup, whether a tick is in ticker.C or not
C20_AsStated ==
    [][(loop.cancelled /\ loop.pc = "select") => loop'.cycles = loop.cycles]_vars

(***************************************************************************)
(* internal/config/config.go: Load and Validate; git.NewManager            *)
(***************************************************************************)

\* Durations in seconds
Minute == 60

\* time.ParseDuration on the interval strings of the runs; ok is FALSE where it
\* returns an error
ParseDuration(str) ==
    CASE str = "30s" -> [ok |-> TRUE, d |-> 30]
      [] str = "1m" -> [ok |-> TRUE, d |-> Minute]
      [] str = "90s" -> [ok |-> TRUE, d |-> 90]
      [] str = "1h" -> [ok |-> TRUE, d |-> 60 * Minute]
      [] OTHER -> [ok |-> FALSE, d |-> 0]

\* getEnvOrDefault, on the value of the variable ("" when it is unset)
getEnvOrDefault(value, defaultValue) == IF value # "" THEN value ELSE defaultValue

\* The environment variables Load may read, with values of the runs; STRIP_FIELDS
\* is the variable of the README
Environments ==
    [ BACKUP_INTERVAL : {"", "30s", "1m", "soon"},
      WORK_DIR : {"", "/backup", workDirDefault},
      DUMP_ONLY : {"", "true", "yes"},
      GIT_REPOSITORY : {"", "https://github.com/test/repo.git", "git@github.com:test/repo.git"},
      GIT_AUTH_METHOD : {"", "token", "basic"},
      GIT_TOKEN : {"", "t0ken"},
      STRIP_FIELDS : {"", "metadata.name", "data,metadata.namespace"} ]

\* config.Load: GIT_BRANCH, GIT_SSH_KEY_PATH and the resource lists are unset and
\* take their defaults; SanitizerConfig has no field, and no line reads STRIP_FIELDS
Load(env) ==
    LET interval == ParseDuration(getEnvOrDefault(env.BACKUP_INTERVAL, "1h"))
    IN  IF ~interval.ok THEN [ok |-> FALSE, err |-> "invalid BACKUP_INTERVAL"]
        ELSE [ ok |-> TRUE,
               err |-> "",
               cfg |-> [ BackupInterval |-> interval.d,
                         WorkDir |-> getEnvOrDefault(env.WORK_DIR, workDirDefault),
                         DumpOnly |-> getEnvOrDefault(env.DUMP_ONLY, "false") = "true",
                         Git |-> [ Repository |-> env.GIT_REPOSITORY,
                                   Branch |-> "main",
                                   AuthMethod |->
                                       IF env.GIT_AUTH_METHOD # "" THEN env.GIT_AUTH_METHOD
                                       ELSE IF HasPrefix(env.GIT_REPOSITORY, "https://")
                                            THEN "token" ELSE "ssh",
                                   SSHKeyPath |-> "/root/.ssh/id_rsa",
                                   Token |-> env.GIT_TOKEN ],
                         Kubernetes |-> DefaultKubernetes,
                         Sanitizer |-> EmptyMap ] ]

\* mutant of Validate: the interval is checked before the Git settings
ValidateIntervalFirst(c) ==
    IF c.BackupInterval < Minute THEN "BACKUP_INTERVAL must be at least 1 minute"
    ELSE IF c.DumpOnly THEN ""
    ELSE IF c.Git.Repository = "" THEN "GIT_REPOSITORY is required"
    ELSE IF c.Git.AuthMethod = "token" /\ c.Git.Token = ""
    THEN "GIT_TOKEN is required when using token authentication"
    ELSE IF c.Git.AuthMethod = "ssh" /\ c.Git.SSHKeyPath = ""
    THEN "GIT_SSH_KEY_PATH is required when using SSH authentication"
    ELSE IF c.Git.AuthMethod # "ssh" /\ c.Git.AuthMethod # "token"
    THEN "GIT_AUTH_METHOD must be either 'ssh' or 'token'"
    ELSE ""

\* Config.Validate: the message of the error, "" for nil
Validate(c) ==
    IF c.DumpOnly
    THEN IF c.BackupInterval < Minute THEN "BACKUP_INTERVAL must be at least 1 minute"
         ELSE ""
    ELSE IF c.Git.Repository = "" THEN "GIT_REPOSITORY is required"
    ELSE IF c.Git.AuthMethod = "token" /\ c.Git.Token = ""
    THEN "GIT_TOKEN is required when using token authentication"
    ELSE IF c.Git.AuthMethod = "ssh" /\ c.Git.SSHKeyPath = ""
    THEN "GIT_SSH_KEY_PATH is required when using SSH authentication"
    ELSE IF c.Git.AuthMethod # "ssh" /\ c.Git.AuthMethod # "token"
    THEN "GIT_AUTH_METHOD must be either 'ssh' or 'token'"
    ELSE IF c.BackupInterval < Minute THEN "BACKUP_INTERVAL must be at least 1 minute"
    ELSE ""

\* git.NewManager, lines 33-36: the working directory of the Manager
ManagerWorkDir(gitConfig) == workDirDefault

\* The configurations Validate is called with, as TestValidate builds them
ValidateConfigs ==
    [ BackupInterval : {0, 59, Minute, 60 * Minute},
      WorkDir : {workDirDefault},
      DumpOnly : BOOLEAN,
      Git : [ Repository : {"", "https://github.com/test/repo.git"},
              Branch : {"main"},
              AuthMethod : {"ssh", "token", "basic", ""},
              SSHKeyPath : {"", "/root/.ssh/id_rsa"},
              Token : {"", "t0ken"} ],
      Kubernetes : {DefaultKubernetes},
      Sanitizer : {EmptyMap} ]

InitConfig ==
    /\ cfg = [Kubernetes |-> DefaultKubernetes, Git |-> DefaultGit]
    /\ pc = "config"
    /\ cancelled = FALSE
    /\ repo = NoRepository(EmptyTree)
    /\ remote = [branch |-> "", log |-> <<>>]
    /\ boot = [done |-> FALSE, case |-> "", err |-> "", fetchErr |-> "-", cloneErr |-> "-"]
    /\ NoCycle
    /\ sel = NoSel
    /\ app = NoApp
    /\ loop = NoLoop

\* Config.Validate on a configuration
ApplyValidate ==
    /\ app.op = ""
    /\ \E c \in ValidateConfigs : app' = [op |-> "validate", c |-> c, err |-> Validate(c)]
    /\ UNCHANGED <<cycleVars, sel, loop>>

\* main, lines 369-400: config.Load, cfg.Validate and, unless the mode is dump-only,
\* git.NewManager(cfg.Git); log.Fatalf ends the process where one of them fails
ApplyLoad ==
    /\ app.op = ""
    /\ \E env \in Environments :
          LET loaded == Load(env)
              err == IF loaded.ok THEN Validate(loaded.cfg) ELSE loaded.err
          IN  app' = [ op |-> "load", env |-> env, loaded |-> loaded, err |-> err,
                       manager |-> err = "" /\ ~loaded.cfg.DumpOnly,
                       workDir |-> IF err = "" /\ ~loaded.cfg.DumpOnly
                                   THEN ManagerWorkDir(loaded.cfg.Git) ELSE "" ]
    /\ UNCHANGED <<cycleVars, sel, loop>>

\* NewYAMLSanitizer
NewYAMLSanitizer(sanitizerConfig) == [config |-> sanitizerConfig]

\* The environment with a repository and the given STRIP_FIELDS, all else unset
StripEnvironment(fields) ==
    [ BACKUP_INTERVAL |-> "", WORK_DIR |-> "", DUMP_ONLY |-> "",
      GIT_REPOSITORY |-> "git@github.com:test/repo.git", GIT_AUTH_METHOD |-> "",
      GIT_TOKEN |-> "", STRIP_FIELDS |-> fields ]

\* main, lines 369-403, and sanitizeResource: two runs of the program with two
\* values of STRIP_FIELDS sanitize the same record
ApplyStripFields ==
    /\ app.op = ""
    /\ \E a, b \in {"", "metadata.name", "data,metadata.namespace"} :
          \E doc \in StripDocs("ConfigMap") :
             LET ysA == NewYAMLSanitizer(Load(StripEnvironment(a)).cfg.Sanitizer)
                 ysB == NewYAMLSanitizer(Load(StripEnvironment(b)).cfg.Sanitizer)
             IN  app' = [ op |-> "fields", a |-> a, b |-> b, doc |-> doc,
                          ysA |-> ysA, ysB |-> ysB,
                          outA |-> applySanitizationRules(doc),
                          outB |-> applySanitizationRules(doc) ]
    /\ UNCHANGED <<cycleVars, sel, loop>>

NextConfig ==
    \/ ApplyValidate
    \/ ApplyLoad
    \/ ApplyStripFields

SpecConfig == InitConfig /\ [][NextConfig]_vars

\* The checks of Validate on the Git settings and the interval, in their order,
\* each with its message; a dump-only configuration is checked for its interval only
ConfigChecks(c) ==
    (IF c.DumpOnly THEN <<>>
     ELSE << [ fails |-> c.Git.Repository = "", msg |-> "GIT_REPOSITORY is required" ],
             [ fails |-> c.Git.AuthMethod = "token" /\ c.Git.Token = "",
               msg |-> "GIT_TOKEN is required when using token authentication" ],
             [ fails |-> c.Git.AuthMethod = "ssh" /\ c.Git.SSHKeyPath = "",
               msg |-> "GIT_SSH_KEY_PATH is required when using SSH authentication" ],
             [ fails |-> c.Git.AuthMethod \notin {"ssh", "token"},
               msg |-> "GIT_AUTH_METHOD must be either 'ssh' or 'token'" ] >>)
    \o << [ fails |-> c.BackupInterval < Minute,
            msg |-> "BACKUP_INTERVAL must be at least 1 minute" ] >>

\* The configurations the claim calls acceptable
Acceptable(c) ==
    \/ c.DumpOnly /\ c.BackupInterval >= Minute
    \/ /\ c.Git.Repository # ""
       /\ \/ c.Git.AuthMethod = "ssh" /\ c.Git.SSHKeyPath # ""
          \/ c.Git.AuthMethod = "token" /\ c.Git.Token # ""
       /\ c.BackupInterval >= Minute

\* C21: Validate returns nil exactly for the acceptable configurations, and
\* otherwise the message of the first check that fails, in the order repository,
\* token, ssh key path, auth method, interval (in dump-only mode the interval is
\* the only check)
C21_ValidateFirstFailure ==
    app.op = "validate" =>
        LET checks == ConfigChecks(app.c)
            unmet == {i \in DOMAIN checks : checks[i].fails}
        IN  /\ app.err = "" <=> Acceptable(app.c)
            /\ unmet = {} <=> Acceptable(app.c)
            /\ unmet # {} =>
                  \E i \in unmet : /\ \A j \in unmet : i <= j
                                     /\ app.err = checks[i].msg

\* C21 happens: a configuration without repository, with an unknown auth method
\* and a short interval was refused for its repository
C21_Witness ==
    /\ app.op = "validate"
    /\ ~app.c.DumpOnly
    /\ app.c.Git.Repository = ""
    /\ app.c.Git.AuthMethod = "basic"
    /\ app.c.BackupInterval < Minute
    /\ app.err = "GIT_REPOSITORY is required"

\* C22 as stated: the directory the Git manager operates on is Config.WorkDir, for
\* every value of WORK_DIR
C22_AsStated ==
    (app.op = "load" /\ app.manager) => app.workDir = app.loaded.cfg.WorkDir

\* The paths of a comma-separated list that lead to a field of the document
PathsPresent(fields, doc) ==
    IF fields = "" THEN {}
    ELSE {path \in Range(Split(fields, ",")) : Resolves(doc, Split(path, "."))}

\* C23 as stated: two runs with values of STRIP_FIELDS that differ on a field
\* present in the record produce different sanitized documents
C23_AsStated ==
    (app.op = "fields" /\ PathsPresent(app.a, app.doc) # PathsPresent(app.b, app.doc)) =>
        app.outA # app.outB

C24_FixedOrder ==
    [][ /\ IsPrefix(ran', CycleSteps)
        /\ (ran' # ran /\ ran' # <<>>) => ran' = Append(ran, pc)
        /\ (repo'.files # repo.files /\ pc # "boot") => pc \in {"pull", "cleanup", "write"}
        /\ (pc \in {"cleanup", "write"} /\ ran' # ran) =>
              /\ \E i \in DOMAIN ran : ran[i] = "pull"
              /\ cycleErr = ""
              /\ Len(sanitized) = Len(resources)
        /\ (pc = "pull" /\ ran' # ran /\ (faults' > faults \/ cycleErr' # "")) =>
              /\ pc' = "select"
              /\ repo'.files = repo.files
              /\ removed' = {}
        /\ (pc = "push" /\ ran' # ran) => ran[Len(ran)] = "commit" ]_vars

\* C24 happens: a cycle came to its push after all other steps, and the cycle
\* before it had ended at its failed pull
C24_Witness ==
    /\ pc = "push"
    /\ ran = SubSeq(CycleSteps, 1, 7)
    /\ cycle = 2
    /\ prev.err = "failed to pull latest changes"

(***************************************************************************)
(* Manager.checkoutBranch on the repositories a start may find              *)
(***************************************************************************)

\* The histories of a branch: none, one commit, two commits
BootLogs == {<<>>, <<SeedTree>>, <<SeedTree, ForeignTree(SeedTree)>>}

\* The remote repositories: empty, or with one branch
BootRemotes ==
    {[branch |-> "", log |-> <<>>]}
    \cup {[branch |-> b, log |-> l] : b \in {"main", "master"}, l \in BootLogs \ {<<>>}}

\* The repositories gm.repository may be when checkoutBranch is called: opened
\* from a working directory that an earlier run left, just cloned, or just
\* initialized; HEAD on a branch with or without commits, and the remote-tracking
\* branch as the last fetch left it
BootRepositories(origin) ==
    { [ files |-> Override(InitGitFiles(workDirDefault),
                           CheckoutFiles(workDirDefault, HeadTree(l))),
        index |-> HeadTree(l),
        head |-> h,
        branches |-> IF l = <<>> THEN {} ELSE {h},
        log |-> l,
        origin |-> DefaultGit.Repository,
        fetched |-> f ] :
        h \in {"main", "master"}, l \in BootLogs,
        f \in {x \in BootLogs : IsPrefix(x, origin.log)} }

InitBoot ==
    /\ cfg = [Kubernetes |-> DefaultKubernetes, Git |-> DefaultGit]
    /\ pc = "checkout"
    /\ cancelled = FALSE
    /\ repo = NoRepository(EmptyTree)
    /\ remote = [branch |-> "", log |-> <<>>]
    /\ boot = [done |-> FALSE, case |-> "", err |-> "", fetchErr |-> "-", cloneErr |-> "-"]
    /\ NoCycle
    /\ sel = NoSel
    /\ app = NoApp
    /\ loop = NoLoop

\* Manager.checkoutBranch
ApplyCheckout ==
    /\ app.op = ""
    /\ \E origin \in BootRemotes, fetchOk \in BOOLEAN, checkoutOk \in BOOLEAN :
          \E repository \in BootRepositories(origin) :
             LET env == [ clone |-> TRUE, init |-> TRUE, createRemote |-> TRUE,
                          fetch |-> fetchOk, checkout |-> checkoutOk ]
             IN  app' = [ op |-> "checkout", repo |-> repository, remote |-> origin,
                          env |-> env,
                          r |-> checkoutBranch(repository, cfg.Git, workDirDefault, origin, env) ]
    /\ UNCHANGED <<cycleVars, sel, loop>>

NextBoot == ApplyCheckout

SpecBoot == InitBoot /\ [][NextBoot]_vars

\* C25: when the fetch does not fail: a local branch of the configured name is
\* checked out with the commits it has, whatever the remote branch holds;
\* otherwise, when the remote has a branch of that name, the local branch is
\* created with the commits of the remote branch; a failed checkout is an error of
\* the start in these two cases; otherwise the creation of a new branch is tried
\* and the start goes on whether it worked or not
C25_BranchPriority ==
    (app.op = "checkout" /\ app.env.fetch) =>
        LET branch == cfg.Git.Branch
            r == app.r
        IN  IF branch \in app.repo.branches
            THEN IF app.env.checkout
                 THEN r.err = "" /\ r.repo.head = branch /\ r.repo.log = app.repo.log
                 ELSE r.err = "failed to checkout existing branch"
            ELSE IF app.remote.branch = branch
            THEN IF app.env.checkout
                 THEN r.err = "" /\ r.repo.head = branch /\ r.repo.log = app.remote.log
                 ELSE r.err = "failed to create branch from remote"
            ELSE r.err = ""

\* C25 happens: the local branch is one commit behind the remote branch of the
\* same name and was checked out where it is
C25_Witness ==
    /\ app.op = "checkout"
    /\ app.env.fetch /\ app.env.checkout
    /\ cfg.Git.Branch \in app.repo.branches
    /\ app.remote.branch = cfg.Git.Branch
    /\ Len(app.repo.log) = 1
    /\ Len(app.remote.log) = 2
    /\ app.r.err = ""
    /\ app.r.repo.log = app.repo.log

\* C26 as stated: after a start that succeeded, HEAD of the working tree is on
\* the configured branch, whatever the case of the branch resolution was, and the
\* branch of the remote that a push of a cycle updates has the configured name
C26_AsStated ==
    (boot.done /\ boot.err = "") =>
        /\ repo.head = cfg.Git.Branch
        /\ remote.log # <<>> => remote.branch = cfg.Git.Branch

\* C27 as stated: the process never ends while a cycle stands between its first
\* change of the working tree and the end of its commit step
C27_AsStated ==
    ~(loop.main = "exited" /\ loop.running = 1 /\ loop.pc \in {"write", "add", "commit"})

\* The paths of a set that are snapshots of a kind whose listing failed in this cycle
OfFailedListing(paths) ==
    { path \in paths :
        \E t \in failing : Contains(path, "/" \o ToLower(resourceTypes[t].Kind) \o "/") }

\* C28 as stated: in a cycle where the listing of a kind failed, the reconciliation
\* deletes no snapshot of that kind, and the push delivers no commit without one
C28_AsStated ==
    [][ /\ (pc = "cleanup" /\ ran' # ran) =>
              OfFailedListing(DOMAIN repo.files) \subseteq DOMAIN repo'.files
        /\ (pc = "push" /\ ran' # ran /\ remote.log # <<>>) =>
              OfFailedListing(DOMAIN HeadTree(remote.log)) \subseteq DOMAIN HeadTree(remote'.log)
      ]_vars

\* C30: the commits of the local branch stay in it from step to step, a failed
\* push included; a cycle goes on to its push also when its commit step found
\* nothing to commit; and a push that succeeds leaves the remote branch with every
\* commit of the local branch
C30_CommitsDelivered ==
    [][ /\ pc # "boot" => IsPrefix(repo.log, repo'.log)
        /\ (pc = "commit" /\ ran' # ran /\ status' # "failed") => pc' = "push"
        /\ (pc = "push" /\ ran' # ran) =>
              IF cycleErr' = "" THEN remote'.log = repo'.log /\ remote'.log = repo.log
              ELSE remote' = remote ]_vars

\* C30 happens: a cycle with nothing to commit has delivered, by its push, the
\* commit of an earlier cycle whose push had failed
C30_Witness ==
    /\ pc = "select"
    /\ cycle = 2
    /\ faults = 1
    /\ ran = CycleSteps
    /\ status = "clean"
    /\ cycleErr = ""
    /\ remote.log = repo.log
    /\ Len(remote.log) >= 1

====
